---- MODULE Spec2Model ----
(***************************************************************************)
(* xdiff: the command-line front end (xdiff-cli.c), the moved-block        *)
(* detector (xdiff-moved.c) and the diff / merge engine they call.         *)
(*                                                                         *)
(* A file is a sequence of lines; a line is a sequence of one-character    *)
(* strings, without its terminating line feed.  Line numbers inside the    *)
(* engine are 0-based offsets, as in xdchange_t (i1, chg1, i2, chg2); the  *)
(* callbacks receive 1-based numbers.                                      *)
(***************************************************************************)
EXTENDS Integers, Sequences, FiniteSets, TLC

\* ------------------------------------------------------------------------
\* Bounds of the model
\* ------------------------------------------------------------------------
MaxLen == 2
MaxDiffLen == 3
MaxArgs == 1
MaxMergeLen == 2
MaxParseArgs == 2

\* ------------------------------------------------------------------------
\* Generic helpers
\* ------------------------------------------------------------------------
Max(a, b) == IF a >= b THEN a ELSE b
Min(a, b) == IF a <= b THEN a ELSE b

SeqsUpTo(S, n) == UNION {[1..k -> S] : k \in 0..n}

RECURSIVE Concat(_)
Concat(ss) == IF ss = <<>> THEN <<>> ELSE Head(ss) \o Concat(Tail(ss))

\* The elements of s at the positions lo..hi (1-based, inclusive).
Slice(s, lo, hi) == [k \in 1..Max(hi - lo + 1, 0) |-> s[lo + k - 1]]

\* ------------------------------------------------------------------------
\* Line Table Builder and Equivalence Classifier
\* ------------------------------------------------------------------------
IsSpace(c) == c \in {" ", "\t"}

\* ignore-all-whitespace: every whitespace character is dropped.
RECURSIVE StripAllSpace(_)
StripAllSpace(line) ==
    IF line = <<>> THEN <<>>
    ELSE IF IsSpace(Head(line)) THEN StripAllSpace(Tail(line))
    ELSE <<Head(line)>> \o StripAllSpace(Tail(line))

\* ignore-whitespace-change: a run of whitespace collapses to one marker.
RECURSIVE CollapseSpace(_, _)
CollapseSpace(line, prevSpace) ==
    IF line = <<>> THEN <<>>
    ELSE IF IsSpace(Head(line))
         THEN (IF prevSpace THEN <<>> ELSE <<" ">>) \o CollapseSpace(Tail(line), TRUE)
         ELSE <<Head(line)>> \o CollapseSpace(Tail(line), FALSE)

\* The content a line is compared by under the preprocessing flags.
NormalizeLine(line, flags) ==
    IF "XDF_IGNORE_WHITESPACE" \in flags THEN StripAllSpace(line)
    ELSE IF "XDF_IGNORE_WHITESPACE_CHANGE" \in flags THEN CollapseSpace(line, FALSE)
    ELSE line

\* The equivalence table: the distinct normalized contents, in the order in
\* which the lines of file 1 and then of file 2 first show them.
RECURSIVE BuildTable(_, _, _)
BuildTable(lines, flags, table) ==
    IF lines = <<>> THEN table
    ELSE LET n == NormalizeLine(Head(lines), flags)
         IN  IF \E k \in 1..Len(table) : table[k] = n
             THEN BuildTable(Tail(lines), flags, table)
             ELSE BuildTable(Tail(lines), flags, Append(table, n))

EquivalenceTable(f1, f2, flags) == BuildTable(f1 \o f2, flags, <<>>)

\* The class id of a line: its normalized content's place in the table.
ClassId(line, flags, table) ==
    CHOOSE k \in 1..Len(table) : table[k] = NormalizeLine(line, flags)

ClassSeq(f, flags, table) == [i \in 1..Len(f) |-> ClassId(f[i], flags, table)]

\* ------------------------------------------------------------------------
\* Edit-Script Engine.  X and Y are the class-id sequences of file 1 and
\* file 2; a result names the changed lines of each side (the rchg marks):
\* del is the set of positions of X that are deleted, add the set of
\* positions of Y that are inserted (1-based positions of the sequences).
\* ------------------------------------------------------------------------
ScriptCost(r) == Cardinality(r.del) + Cardinality(r.add)

ScriptUnion(r, s) == [del |-> r.del \cup s.del, add |-> r.add \cup s.add]

AllChanged(l1, h1, l2, h2) == [del |-> l1..h1, add |-> l2..h2]

\* An engine that keeps every line: it reports no change at all.
MyersKeepsAll(X, Y, l1, h1, l2, h2) == [del |-> {}, add |-> {}]

\* Myers: a shortest edit script of X[l1..h1] against Y[l2..h2].  Equal
\* heads are kept (the snake); otherwise the cheaper of deleting the head of
\* X and inserting the head of Y is taken, the deletion on a tie.
RECURSIVE MyersDiff(_, _, _, _, _, _)
MyersDiff(X, Y, l1, h1, l2, h2) ==
    IF l1 > h1 THEN [del |-> {}, add |-> l2..h2]
    ELSE IF l2 > h2 THEN [del |-> l1..h1, add |-> {}]
    ELSE IF X[l1] = Y[l2] THEN MyersDiff(X, Y, l1 + 1, h1, l2 + 1, h2)
    ELSE LET d == MyersDiff(X, Y, l1 + 1, h1, l2, h2)
             a == MyersDiff(X, Y, l1, h1, l2 + 1, h2)
         IN  IF ScriptCost(d) <= ScriptCost(a)
             THEN [del |-> d.del \cup {l1}, add |-> d.add]
             ELSE [del |-> a.del, add |-> a.add \cup {l2}]

\* Number of occurrences of class c in S[lo..hi].
Occurrences(S, lo, hi, c) == Cardinality({k \in lo..hi : S[k] = c})

CommonPairs(X, Y, l1, h1, l2, h2) ==
    {p \in (l1..h1) \X (l2..h2) : X[p[1]] = Y[p[2]]}

\* Patience: the pairs of lines that occur exactly once on each side.
UniquePairs(X, Y, l1, h1, l2, h2) ==
    {p \in CommonPairs(X, Y, l1, h1, l2, h2) :
        /\ Occurrences(X, l1, h1, X[p[1]]) = 1
        /\ Occurrences(Y, l2, h2, Y[p[2]]) = 1}

\* A set of pairs in the same relative order on both sides.
IsChain(P) == \A p \in P : \A q \in P : (p[1] < q[1]) <=> (p[2] < q[2])

\* The longest common subsequence of the unique lines: the anchors.
LongestChain(U) ==
    CHOOSE P \in SUBSET U :
        /\ IsChain(P)
        /\ \A Q \in SUBSET U : IsChain(Q) => Cardinality(Q) <= Cardinality(P)

FirstAnchor(P) == CHOOSE p \in P : \A q \in P : p[1] <= q[1]

RECURSIVE PatienceDiff(_, _, _, _, _, _)
RECURSIVE WalkCommonSequence(_, _, _, _, _, _, _)

\* Patience on X[l1..h1] against Y[l2..h2].  A region without any common
\* line is changed as a whole; a region with common lines but no unique one
\* falls back to the classic algorithm.
PatienceDiff(X, Y, l1, h1, l2, h2) ==
    IF l1 > h1 THEN [del |-> {}, add |-> l2..h2]
    ELSE IF l2 > h2 THEN [del |-> l1..h1, add |-> {}]
    ELSE IF CommonPairs(X, Y, l1, h1, l2, h2) = {} THEN AllChanged(l1, h1, l2, h2)
    ELSE LET U == UniquePairs(X, Y, l1, h1, l2, h2)
         IN  IF U = {} THEN MyersDiff(X, Y, l1, h1, l2, h2)
             ELSE WalkCommonSequence(X, Y, l1, h1, l2, h2, LongestChain(U))

\* The regions between consecutive anchors are solved recursively.
WalkCommonSequence(X, Y, l1, h1, l2, h2, chain) ==
    IF chain = {} THEN PatienceDiff(X, Y, l1, h1, l2, h2)
    ELSE LET p == FirstAnchor(chain)
         IN  ScriptUnion(PatienceDiff(X, Y, l1, p[1] - 1, l2, p[2] - 1),
                         WalkCommonSequence(X, Y, p[1] + 1, h1, p[2] + 1, h2,
                                            chain \ {p}))

\* Histogram: how far the match at (i, j) extends over adjacent equal lines.
RECURSIVE ExtendBack(_, _, _, _, _, _)
ExtendBack(X, Y, i, j, l1, l2) ==
    IF i - 1 >= l1 /\ j - 1 >= l2 /\ X[i - 1] = Y[j - 1]
    THEN 1 + ExtendBack(X, Y, i - 1, j - 1, l1, l2)
    ELSE 0

RECURSIVE ExtendForward(_, _, _, _, _, _)
ExtendForward(X, Y, i, j, h1, h2) ==
    IF i + 1 <= h1 /\ j + 1 <= h2 /\ X[i + 1] = Y[j + 1]
    THEN 1 + ExtendForward(X, Y, i + 1, j + 1, h1, h2)
    ELSE 0

\* The extended match around the common pair p, with the occurrence count
\* of its line.
AnchorRegion(X, Y, p, l1, h1, l2, h2) ==
    LET b == ExtendBack(X, Y, p[1], p[2], l1, l2)
        f == ExtendForward(X, Y, p[1], p[2], h1, h2)
    IN  [as |-> p[1] - b, ae |-> p[1] + f, bs |-> p[2] - b, be |-> p[2] + f,
         cnt |-> Occurrences(X, l1, h1, X[p[1]]), len |-> b + f + 1]

\* Rarest line first, then the longest extended match, then the earliest
\* position in file 1 (and in file 2).
AnchorBefore(r, s) ==
    \/ r.cnt < s.cnt
    \/ r.cnt = s.cnt /\ r.len > s.len
    \/ r.cnt = s.cnt /\ r.len = s.len /\ r.as < s.as
    \/ r.cnt = s.cnt /\ r.len = s.len /\ r.as = s.as /\ r.bs <= s.bs

BestAnchor(X, Y, l1, h1, l2, h2) ==
    LET R == {AnchorRegion(X, Y, p, l1, h1, l2, h2) :
                 p \in CommonPairs(X, Y, l1, h1, l2, h2)}
    IN  CHOOSE r \in R : \A s \in R : AnchorBefore(r, s)

RECURSIVE HistogramDiff(_, _, _, _, _, _)
HistogramDiff(X, Y, l1, h1, l2, h2) ==
    IF l1 > h1 THEN [del |-> {}, add |-> l2..h2]
    ELSE IF l2 > h2 THEN [del |-> l1..h1, add |-> {}]
    ELSE IF CommonPairs(X, Y, l1, h1, l2, h2) = {} THEN AllChanged(l1, h1, l2, h2)
    ELSE LET r == BestAnchor(X, Y, l1, h1, l2, h2)
         IN  ScriptUnion(HistogramDiff(X, Y, l1, r.as - 1, l2, r.bs - 1),
                         HistogramDiff(X, Y, r.ae + 1, h1, r.be + 1, h2))

\* Algorithm selection by the preprocessing flags; Myers is the default.
EditScript(X, Y, flags) ==
    IF "XDF_PATIENCE_DIFF" \in flags THEN PatienceDiff(X, Y, 1, Len(X), 1, Len(Y))
    ELSE IF "XDF_HISTOGRAM_DIFF" \in flags THEN HistogramDiff(X, Y, 1, Len(X), 1, Len(Y))
    ELSE MyersDiff(X, Y, 1, Len(X), 1, Len(Y))

\* ------------------------------------------------------------------------
\* Change Compactor: the edit script as an ordered list of change hunks
\* [i1, chg1, i2, chg2, ignore], 0-based as in xdchange_t.
\* ------------------------------------------------------------------------
RECURSIVE RunLength(_, _)
RunLength(S, k) == IF k \in S THEN 1 + RunLength(S, k + 1) ELSE 0

BlankLine(line, flags) == NormalizeLine(line, flags) = <<>>

\* A hunk made only of blank lines is ignorable under ignore-blank-lines.
IgnorableHunk(f1, f2, i1, chg1, i2, chg2, flags) ==
    /\ "XDF_IGNORE_BLANK_LINES" \in flags
    /\ \A k \in (i1 + 1)..(i1 + chg1) : BlankLine(f1[k], flags)
    /\ \A k \in (i2 + 1)..(i2 + chg2) : BlankLine(f2[k], flags)

RECURSIVE BuildScript(_, _, _, _, _, _)
BuildScript(f1, f2, r, flags, i, j) ==
    IF i >= Len(f1) /\ j >= Len(f2) THEN <<>>
    ELSE IF (i + 1) \notin r.del /\ (j + 1) \notin r.add
         THEN BuildScript(f1, f2, r, flags, i + 1, j + 1)
         ELSE LET c1 == RunLength(r.del, i + 1)
                  c2 == RunLength(r.add, j + 1)
              IN  <<[i1 |-> i, chg1 |-> c1, i2 |-> j, chg2 |-> c2,
                     ignore |-> IgnorableHunk(f1, f2, i, c1, j, c2, flags)]>>
                  \o BuildScript(f1, f2, r, flags, i + c1, j + c2)

\* xdl_do_diff followed by xdl_build_script: the change hunks of f1 -> f2.
ChangeScript(f1, f2, flags) ==
    LET table == EquivalenceTable(f1, f2, flags)
        X == ClassSeq(f1, flags, table)
        Y == ClassSeq(f2, flags, table)
    IN  BuildScript(f1, f2, EditScript(X, Y, flags), flags, 0, 0)

\* ------------------------------------------------------------------------
\* Emission Layer: the callback events of one xdl_diff call, in order.
\* ------------------------------------------------------------------------
\* Kept lines between two consecutive change hunks.
HunkGap(h, g) == g.i1 - (h.i1 + h.chg1)

\* An emission that never reports two hunks together.
JoinedNever(h, g, ctxlen, interhunkctxlen) == FALSE

\* Two consecutive hunks are reported together when they are closer than
\* the inter-hunk distance or when their contexts would overlap.
Joined(h, g, ctxlen, interhunkctxlen) ==
    \/ HunkGap(h, g) < interhunkctxlen
    \/ HunkGap(h, g) < 2 * ctxlen

RECURSIVE GroupHunks(_, _, _)
GroupHunks(script, ctxlen, interhunkctxlen) ==
    IF script = <<>> THEN <<>>
    ELSE LET rest == GroupHunks(Tail(script), ctxlen, interhunkctxlen)
         IN  IF rest # <<>> /\ Joined(Head(script), Head(Head(rest)), ctxlen, interhunkctxlen)
             THEN <<<<Head(script)>> \o Head(rest)>> \o Tail(rest)
             ELSE <<<<Head(script)>>>> \o rest

\* A group made only of ignorable hunks is not emitted.
EmittedGroups(script, ctxlen, interhunkctxlen) ==
    SelectSeq(GroupHunks(script, ctxlen, interhunkctxlen),
              LAMBDA g : \E k \in 1..Len(g) : ~g[k].ignore)

\* The range of a group without any context.
GroupRangeNoContext(g, n1, n2, ctxlen) ==
    [s1 |-> g[1].i1, s2 |-> g[1].i2,
     e1 |-> g[Len(g)].i1 + g[Len(g)].chg1, e2 |-> g[Len(g)].i2 + g[Len(g)].chg2]

\* The reported range of a group: the change range extended by ctxlen
\* unchanged lines on each side, clamped to the file boundaries (0-based
\* half-open [s1, e1) and [s2, e2)).
GroupRange(g, n1, n2, ctxlen) ==
    LET first == g[1]
        last == g[Len(g)]
        end1 == last.i1 + last.chg1
        end2 == last.i2 + last.chg2
        lctx == Min(ctxlen, Min(n1 - end1, n2 - end2))
    IN  [s1 |-> Max(first.i1 - ctxlen, 0), s2 |-> Max(first.i2 - ctxlen, 0),
         e1 |-> end1 + lctx, e2 |-> end2 + lctx]

HunkEvent(ob, on, nb, nn) ==
    [ev |-> "hunk", old_begin |-> ob, old_nr |-> on, new_begin |-> nb, new_nr |-> nn,
     tag |-> "", text |-> <<>>]

LineEvent(t, line) ==
    [ev |-> "line", old_begin |-> 0, old_nr |-> 0, new_begin |-> 0, new_nr |-> 0,
     tag |-> t, text |-> line]

LineEvents(t, f, lo, hi) == [k \in 1..Max(hi - lo + 1, 0) |-> LineEvent(t, f[lo + k - 1])]

\* The lines of the k-th hunk of a group: its deleted lines, its added lines,
\* and the kept lines up to the next hunk of the group.
RECURSIVE GroupBody(_, _, _, _)
GroupBody(g, f1, f2, k) ==
    IF k > Len(g) THEN <<>>
    ELSE LineEvents("-", f1, g[k].i1 + 1, g[k].i1 + g[k].chg1)
         \o LineEvents("+", f2, g[k].i2 + 1, g[k].i2 + g[k].chg2)
         \o (IF k < Len(g)
             THEN LineEvents(" ", f2, g[k].i2 + g[k].chg2 + 1, g[k + 1].i2)
             ELSE <<>>)
         \o GroupBody(g, f1, f2, k + 1)

GroupEvents(g, f1, f2, ctxlen) ==
    LET r == GroupRange(g, Len(f1), Len(f2), ctxlen)
        last == g[Len(g)]
    IN  <<HunkEvent(r.s1 + 1, r.e1 - r.s1, r.s2 + 1, r.e2 - r.s2)>>
        \o LineEvents(" ", f2, r.s2 + 1, g[1].i2)
        \o GroupBody(g, f1, f2, 1)
        \o LineEvents(" ", f2, last.i2 + last.chg2 + 1, r.e2)

RECURSIVE AllGroupEvents(_, _, _, _)
AllGroupEvents(groups, f1, f2, ctxlen) ==
    IF groups = <<>> THEN <<>>
    ELSE GroupEvents(Head(groups), f1, f2, ctxlen)
         \o AllGroupEvents(Tail(groups), f1, f2, ctxlen)

\* xdl_emit_diff: every callback xdl_diff makes for f1 -> f2, in order.
EmitEvents(f1, f2, flags, ctxlen, interhunkctxlen) ==
    AllGroupEvents(EmittedGroups(ChangeScript(f1, f2, flags), ctxlen, interhunkctxlen),
                   f1, f2, ctxlen)

\* The buffers of one out_line call: the role marker and the line with its
\* line feed, in one buffer or in two.
LineBuffers(e, nb) ==
    IF nb = 1 THEN <<<<e.tag>> \o e.text \o <<"\n">>>>
    ELSE <<<<e.tag>>, e.text \o <<"\n">>>>

\* ------------------------------------------------------------------------
\* Moved-block detector (xdiff-moved.c)
\* ------------------------------------------------------------------------
MIN_BLOCK_SIZE == 20

LowerCase == <<"a", "b", "c", "d", "e", "f", "g", "h", "i", "j", "k", "l", "m",
               "n", "o", "p", "q", "r", "s", "t", "u", "v", "w", "x", "y", "z">>
Digits == <<"0", "1", "2", "3", "4", "5", "6", "7", "8", "9">>

IsLower(c) == \E k \in 1..Len(LowerCase) : LowerCase[k] = c
IsDigit(c) == \E k \in 1..Len(Digits) : Digits[k] = c

\* isalnum and isspace of <ctype.h>, on the characters the model uses.
IsAlnum(c) == IsLower(c) \/ IsDigit(c)
IsCSpace(c) == c \in {" ", "\t", "\n"}

\* (unsigned char)c
CharCode(c) ==
    IF IsLower(c) THEN 96 + (CHOOSE k \in 1..Len(LowerCase) : LowerCase[k] = c)
    ELSE IF IsDigit(c) THEN 47 + (CHOOSE k \in 1..Len(Digits) : Digits[k] = c)
    ELSE CASE c = "\t" -> 9
           [] c = "\n" -> 10
           [] c = " " -> 32
           [] c = "+" -> 43
           [] c = "-" -> 45
           [] c = "<" -> 60
           [] c = ">" -> 62
           [] OTHER -> 63

\* unsigned long is 64 bits wide: four 16-bit limbs, least significant first.
LimbBase == 65536

ULong(n) == <<n % LimbBase, (n \div LimbBase) % LimbBase, 0, 0>>

\* (h << 5) + h + g, modulo 2^64
ULongTimes33Plus(h, g) ==
    LET t1 == h[1] * 33 + g[1]
        t2 == h[2] * 33 + g[2] + (t1 \div LimbBase)
        t3 == h[3] * 33 + g[3] + (t2 \div LimbBase)
        t4 == h[4] * 33 + g[4] + (t3 \div LimbBase)
    IN  <<t1 % LimbBase, t2 % LimbBase, t3 % LimbBase, t4 % LimbBase>>

\* The loop of djb2_hash over the bytes of str, from the left.  The bytes
\* are folded half by half, the left half first (the test on its hash makes
\* the evaluation take it first), so that a long line is folded at a depth
\* of the logarithm of its length.
RECURSIVE djb2_step(_, _)
djb2_step(hash, str) ==
    IF str = <<>> THEN hash
    ELSE IF Len(str) = 1 THEN ULongTimes33Plus(hash, ULong(CharCode(Head(str))))
    ELSE LET half == Len(str) \div 2
             left == djb2_step(hash, SubSeq(str, 1, half))
         IN  IF Len(left) = 4 THEN djb2_step(left, SubSeq(str, half + 1, Len(str)))
             ELSE left

djb2_hash(str) == djb2_step(ULong(5381), str)

RECURSIVE CollapseCSpace(_, _)
CollapseCSpace(line, prev_space) ==
    IF line = <<>> THEN <<>>
    ELSE IF Len(line) = 1
         THEN (IF IsCSpace(Head(line))
               THEN (IF prev_space THEN <<>> ELSE <<" ">>)
               ELSE line)
    ELSE LET half == Len(line) \div 2
         IN  CollapseCSpace(SubSeq(line, 1, half), prev_space)
             \o CollapseCSpace(SubSeq(line, half + 1, Len(line)), IsCSpace(line[half]))

RECURSIVE StripTrailingCSpace(_)
StripTrailingCSpace(line) ==
    IF line # <<>> /\ IsCSpace(line[Len(line)])
    THEN StripTrailingCSpace(SubSeq(line, 1, Len(line) - 1))
    ELSE line

\* normalize_whitespace that copies the line in every mode.
normalize_whitespace_copies(line, ws_mode) == line

normalize_whitespace(line, ws_mode) ==
    IF ws_mode = "MOVED_WS_IGNORE_ALL" THEN SelectSeq(line, LAMBDA c : ~IsCSpace(c))
    ELSE IF ws_mode = "MOVED_WS_IGNORE_CHANGE" THEN CollapseCSpace(line, FALSE)
    ELSE IF ws_mode = "MOVED_WS_IGNORE_AT_EOL" THEN StripTrailingCSpace(line)
    ELSE line

count_alnum(line) == Len(SelectSeq(line, IsAlnum))

\* The bytes of a line record: the line with its line feed.
Record(line) == line \o <<"\n">>

\* recs[start .. start + count - 1], 0-based start
RECURSIVE block_hash_step(_, _, _, _, _)
block_hash_step(hash, recs, start, count, ws_mode) ==
    IF count = 0 THEN hash
    ELSE block_hash_step(
             ULongTimes33Plus(hash,
                 djb2_hash(normalize_whitespace(Record(recs[start + 1]), ws_mode))),
             recs, start + 1, count - 1, ws_mode)

compute_block_hash(recs, start, count, ws_mode) ==
    block_hash_step(ULong(5381), recs, start, count, ws_mode)

RECURSIVE count_block_alnum(_, _, _)
count_block_alnum(recs, start, count) ==
    IF count = 0 THEN 0
    ELSE count_alnum(Record(recs[start + 1])) + count_block_alnum(recs, start + 1, count - 1)

\* char normalized[4096]: the buffer of compute_block_hash.
NORMALIZED_SIZE == 4096

\* The most bytes normalize_whitespace writes into normalized for one
\* record of the block: compute_block_hash passes the buffer without its
\* size, and normalize_whitespace writes every byte it keeps.
RECURSIVE block_written(_, _, _, _)
block_written(recs, start, count, ws_mode) ==
    IF count = 0 THEN 0
    ELSE Max(Len(normalize_whitespace(Record(recs[start + 1]), ws_mode)),
             block_written(recs, start + 1, count - 1, ws_mode))

moved_block_alloc(start_line, end_line, hash, is_deleted) ==
    [start_line |-> start_line, end_line |-> end_line, hash |-> hash,
     is_deleted |-> is_deleted, matched |-> FALSE, match_line |-> -1,
     zebra_index |-> -1]

\* A context is a record; the two lists are sequences, the head first.
moved_context_init(mode, ws_mode) ==
    [mode |-> mode, ws_mode |-> ws_mode, min_block_size |-> MIN_BLOCK_SIZE,
     deleted_blocks |-> <<>>, added_blocks |-> <<>>, zebra_counter |-> 0]

\* moved_context_free that leaves the two list pointers as they were.
moved_context_free_keeps_lists(ctx) == ctx

moved_context_free(ctx) ==
    [ctx EXCEPT !.deleted_blocks = <<>>, !.added_blocks = <<>>]

\* The collection loop without the test of xch->ignore.
RECURSIVE CollectLoopKeepsIgnored(_, _, _, _, _, _)
CollectLoopKeepsIgnored(xscr, recs1, recs2, ctx, allocs, failAt) ==
    IF xscr = <<>> THEN [ctx |-> ctx, failed |-> FALSE]
    ELSE LET xch == Head(xscr)
             del == xch.chg1 > 0
             add == xch.chg2 > 0
             a1 == IF del THEN allocs + 1 ELSE allocs
             a2 == IF add THEN a1 + 1 ELSE a1
             ctx1 == IF del
                     THEN [ctx EXCEPT !.deleted_blocks =
                              <<moved_block_alloc(xch.i1 + 1, xch.i1 + xch.chg1,
                                    compute_block_hash(recs1, xch.i1, xch.chg1,
                                                       ctx.ws_mode), TRUE)>>
                              \o @]
                     ELSE ctx
             ctx2 == IF add
                     THEN [ctx1 EXCEPT !.added_blocks =
                              <<moved_block_alloc(xch.i2 + 1, xch.i2 + xch.chg2,
                                    compute_block_hash(recs2, xch.i2, xch.chg2,
                                                       ctx.ws_mode), FALSE)>>
                              \o @]
                     ELSE ctx1
         IN  IF del /\ a1 = failAt THEN [ctx |-> ctx, failed |-> TRUE]
             ELSE IF add /\ a2 = failAt THEN [ctx |-> ctx1, failed |-> TRUE]
             ELSE CollectLoopKeepsIgnored(Tail(xscr), recs1, recs2, ctx2, a2, failAt)

\* The collection loop over the change script.  allocs counts the blocks
\* allocated so far; the allocation numbered failAt fails (0: none does).
\* The result carries failed = TRUE when the loop left through cleanup.
RECURSIVE CollectLoop(_, _, _, _, _, _)
CollectLoop(xscr, recs1, recs2, ctx, allocs, failAt) ==
    IF xscr = <<>> THEN [ctx |-> ctx, failed |-> FALSE]
    ELSE LET xch == Head(xscr)
         IN  IF xch.ignore
             THEN CollectLoop(Tail(xscr), recs1, recs2, ctx, allocs, failAt)
             ELSE LET del == xch.chg1 > 0
                      add == xch.chg2 > 0
                      a1 == IF del THEN allocs + 1 ELSE allocs
                      a2 == IF add THEN a1 + 1 ELSE a1
                      ctx1 == IF del
                              THEN [ctx EXCEPT !.deleted_blocks =
                                       <<moved_block_alloc(xch.i1 + 1, xch.i1 + xch.chg1,
                                             compute_block_hash(recs1, xch.i1, xch.chg1,
                                                                ctx.ws_mode), TRUE)>>
                                       \o @]
                              ELSE ctx
                      ctx2 == IF add
                              THEN [ctx1 EXCEPT !.added_blocks =
                                       <<moved_block_alloc(xch.i2 + 1, xch.i2 + xch.chg2,
                                             compute_block_hash(recs2, xch.i2, xch.chg2,
                                                                ctx.ws_mode), FALSE)>>
                                       \o @]
                              ELSE ctx1
                  IN  IF del /\ a1 = failAt THEN [ctx |-> ctx, failed |-> TRUE]
                      ELSE IF add /\ a2 = failAt THEN [ctx |-> ctx1, failed |-> TRUE]
                      ELSE CollectLoop(Tail(xscr), recs1, recs2, ctx2, a2, failAt)

\* The most bytes written into normalized by the hash computations of the
\* collection loop, up to the allocation that fails.
RECURSIVE CollectWritten(_, _, _, _, _, _)
CollectWritten(xscr, recs1, recs2, ws_mode, allocs, failAt) ==
    IF xscr = <<>> THEN 0
    ELSE LET xch == Head(xscr)
         IN  IF xch.ignore
             THEN CollectWritten(Tail(xscr), recs1, recs2, ws_mode, allocs, failAt)
             ELSE LET del == xch.chg1 > 0
                      add == xch.chg2 > 0
                      a1 == IF del THEN allocs + 1 ELSE allocs
                      a2 == IF add THEN a1 + 1 ELSE a1
                      w1 == IF del THEN block_written(recs1, xch.i1, xch.chg1, ws_mode)
                            ELSE 0
                      w2 == IF add THEN block_written(recs2, xch.i2, xch.chg2, ws_mode)
                            ELSE 0
                 IN  IF del /\ a1 = failAt THEN w1
                     ELSE IF add /\ a2 = failAt THEN Max(w1, w2)
                     ELSE Max(Max(w1, w2),
                              CollectWritten(Tail(xscr), recs1, recs2, ws_mode, a2,
                                             failAt))

\* Number of blocks the collection loop allocates for a change script.
RECURSIVE AllocCount(_)
AllocCount(xscr) ==
    IF xscr = <<>> THEN 0
    ELSE (IF Head(xscr).ignore THEN 0
          ELSE (IF Head(xscr).chg1 > 0 THEN 1 ELSE 0) + (IF Head(xscr).chg2 > 0 THEN 1 ELSE 0))
         + AllocCount(Tail(xscr))

\* The first added block with the hash h, matched or not, or 0.
FirstWithHash(added, h) ==
    IF \E k \in 1..Len(added) : added[k].hash = h
    THEN CHOOSE k \in 1..Len(added) :
             /\ added[k].hash = h
             /\ \A j \in 1..(k - 1) : added[j].hash # h
    ELSE 0

\* The first unmatched added block with the hash h, or 0.
FirstUnmatched(added, h) ==
    IF \E k \in 1..Len(added) : ~added[k].matched /\ added[k].hash = h
    THEN CHOOSE k \in 1..Len(added) :
             /\ ~added[k].matched /\ added[k].hash = h
             /\ \A j \in 1..(k - 1) : ~(~added[j].matched /\ added[j].hash = h)
    ELSE 0

\* Matching that looks for a partner of the d-th deleted block only.
MatchBlocksFirstDeletedOnly(deleted, added, d) ==
    IF d > Len(deleted) \/ deleted[d].matched
    THEN [deleted |-> deleted, added |-> added]
    ELSE LET k == FirstUnmatched(added, deleted[d].hash)
         IN  IF k = 0 THEN [deleted |-> deleted, added |-> added]
             ELSE [deleted |-> [deleted EXCEPT ![d].matched = TRUE,
                                               ![d].match_line = added[k].start_line],
                   added |-> [added EXCEPT ![k].matched = TRUE,
                                           ![k].match_line = deleted[d].start_line]]

\* Simple hash-based matching, deleted blocks in list order from the d-th.
RECURSIVE MatchBlocks(_, _, _)
MatchBlocks(deleted, added, d) ==
    IF d > Len(deleted) THEN [deleted |-> deleted, added |-> added]
    ELSE IF deleted[d].matched THEN MatchBlocks(deleted, added, d + 1)
    ELSE LET k == FirstUnmatched(added, deleted[d].hash)
         IN  IF k = 0 THEN MatchBlocks(deleted, added, d + 1)
             ELSE MatchBlocks(
                      [deleted EXCEPT ![d].matched = TRUE,
                                      ![d].match_line = added[k].start_line],
                      [added EXCEPT ![k].matched = TRUE,
                                    ![k].match_line = deleted[d].start_line],
                      d + 1)

\* The first added block that is matched with the deleted block b, or 0.
FirstPartner(added, b) ==
    IF \E k \in 1..Len(added) :
           added[k].matched /\ added[k].hash = b.hash /\ added[k].match_line = b.start_line
    THEN CHOOSE k \in 1..Len(added) :
             /\ added[k].matched /\ added[k].hash = b.hash
             /\ added[k].match_line = b.start_line
             /\ \A j \in 1..(k - 1) :
                    ~(added[j].matched /\ added[j].hash = b.hash
                      /\ added[j].match_line = b.start_line)
    ELSE 0

\* The size filter left out: every matched pair stays.
FilterBlocksKeepsAll(deleted, added, recs1, min_block_size, d) ==
    [deleted |-> deleted, added |-> added]

\* Pairs whose deleted block has fewer alphanumeric characters than
\* min_block_size are unmarked.
RECURSIVE FilterBlocks(_, _, _, _, _)
FilterBlocks(deleted, added, recs1, min_block_size, d) ==
    IF d > Len(deleted) THEN [deleted |-> deleted, added |-> added]
    ELSE IF ~deleted[d].matched
         THEN FilterBlocks(deleted, added, recs1, min_block_size, d + 1)
    ELSE LET k == FirstPartner(added, deleted[d])
             alnum == count_block_alnum(recs1, deleted[d].start_line - 1,
                          deleted[d].end_line - deleted[d].start_line + 1)
         IN  IF k # 0 /\ alnum < min_block_size
             THEN FilterBlocks([deleted EXCEPT ![d].matched = FALSE],
                               [added EXCEPT ![k].matched = FALSE],
                               recs1, min_block_size, d + 1)
             ELSE FilterBlocks(deleted, added, recs1, min_block_size, d + 1)

\* The first matched added block with the hash h, or 0.
FirstMatchedHash(added, h) ==
    IF \E k \in 1..Len(added) : added[k].matched /\ added[k].hash = h
    THEN CHOOSE k \in 1..Len(added) :
             /\ added[k].matched /\ added[k].hash = h
             /\ \A j \in 1..(k - 1) : ~(added[j].matched /\ added[j].hash = h)
    ELSE 0

RECURSIVE AssignZebra(_, _, _, _)
AssignZebra(deleted, added, counter, d) ==
    IF d > Len(deleted)
    THEN [deleted |-> deleted, added |-> added, zebra_counter |-> counter]
    ELSE IF deleted[d].matched /\ deleted[d].zebra_index = -1
         THEN LET k == FirstMatchedHash(added, deleted[d].hash)
              IN  AssignZebra([deleted EXCEPT ![d].zebra_index = counter],
                              IF k = 0 THEN added
                              ELSE [added EXCEPT ![k].zebra_index = counter],
                              counter + 1, d + 1)
         ELSE AssignZebra(deleted, added, counter, d + 1)

\* Matching, size filter and zebra indices, after the collection loop.
MatchAndFilter(ctx, recs1) ==
    IF ctx.mode = "MOVED_MODE_NO" THEN ctx
    ELSE LET m == MatchBlocks(ctx.deleted_blocks, ctx.added_blocks, 1)
             f == IF ctx.mode \in {"MOVED_MODE_BLOCKS", "MOVED_MODE_ZEBRA",
                                   "MOVED_MODE_DIMMED_ZEBRA"}
                  THEN FilterBlocks(m.deleted, m.added, recs1, ctx.min_block_size, 1)
                  ELSE m
         IN  IF ctx.mode \in {"MOVED_MODE_ZEBRA", "MOVED_MODE_DIMMED_ZEBRA"}
             THEN LET z == AssignZebra(f.deleted, f.added, 0, 1)
                  IN  [ctx EXCEPT !.deleted_blocks = z.deleted, !.added_blocks = z.added,
                                  !.zebra_counter = z.zebra_counter]
             ELSE [ctx EXCEPT !.deleted_blocks = f.deleted, !.added_blocks = f.added]

\* collect_blocks_from_diff on a change script that was built: the return
\* value and the context it leaves.
collect_blocks_from_diff(xscr, f1, f2, ctx, failAt) ==
    IF xscr = <<>> THEN [ret |-> 0, ctx |-> ctx]
    ELSE LET c == CollectLoop(xscr, f1, f2, ctx, 0, failAt)
         IN  IF c.failed THEN [ret |-> -1, ctx |-> c.ctx]
             ELSE [ret |-> 0, ctx |-> MatchAndFilter(c.ctx, f1)]

is_line_moved(ctx, line_num, is_deleted) ==
    LET list == IF is_deleted THEN ctx.deleted_blocks ELSE ctx.added_blocks
    IN  /\ ctx.mode # "MOVED_MODE_NO"
        /\ \E k \in 1..Len(list) :
               /\ list[k].matched
               /\ line_num >= list[k].start_line
               /\ line_num <= list[k].end_line

\* ------------------------------------------------------------------------
\* The command line (xdiff-cli.c)
\* ------------------------------------------------------------------------
FILE1 == "file1"
FILE2 == "file2"

\* One getopt_long result: the option, and its argument when it has one
\* (num for -u / -c, str for --moved / --moved-ws).
Opt(name) == [opt |-> name, has_arg |-> FALSE, num |-> 0, str |-> ""]
OptNum(name, n) == [opt |-> name, has_arg |-> TRUE, num |-> n, str |-> ""]
OptStr(name, x) == [opt |-> name, has_arg |-> TRUE, num |-> 0, str |-> x]

\* The locals of main that option parsing sets, as initialised.
\* main with context_lines initialised to 0 instead of 3.
DefaultOptionsNoContext ==
    [context_lines |-> 0, brief |-> FALSE, xpp_flags |-> {}, algorithm_set |-> FALSE,
     moved_mode |-> "MOVED_MODE_PLAIN", moved_ws_mode |-> "MOVED_WS_NO"]

DefaultOptions ==
    [context_lines |-> 3, brief |-> FALSE, xpp_flags |-> {}, algorithm_set |-> FALSE,
     moved_mode |-> "MOVED_MODE_PLAIN", moved_ws_mode |-> "MOVED_WS_NO"]

Parsed(o) == [exit |-> FALSE, ret |-> 0, usage |-> FALSE, o |-> o]
ParseExit(o, r, u) == [exit |-> TRUE, ret |-> r, usage |-> u, o |-> o]

\* One turn of the switch in main's getopt loop.
ParseOption(o, t) ==
    CASE t.opt \in {"u", "c"} ->
            IF ~t.has_arg THEN Parsed(o)
            ELSE IF t.num < 0 THEN ParseExit([o EXCEPT !.context_lines = t.num], 1, FALSE)
            ELSE Parsed([o EXCEPT !.context_lines = t.num])
      [] t.opt = "q" -> Parsed([o EXCEPT !.brief = TRUE])
      [] t.opt = "w" -> Parsed([o EXCEPT !.xpp_flags = @ \cup {"XDF_IGNORE_WHITESPACE"}])
      [] t.opt = "b" ->
            Parsed([o EXCEPT !.xpp_flags = @ \cup {"XDF_IGNORE_WHITESPACE_CHANGE"}])
      [] t.opt = "B" -> Parsed([o EXCEPT !.xpp_flags = @ \cup {"XDF_IGNORE_BLANK_LINES"}])
      [] t.opt = "minimal" -> Parsed([o EXCEPT !.xpp_flags = @ \cup {"XDF_NEED_MINIMAL"}])
      [] t.opt = "patience" ->
            IF o.algorithm_set THEN ParseExit(o, 1, FALSE)
            ELSE Parsed([o EXCEPT !.xpp_flags = @ \cup {"XDF_PATIENCE_DIFF"},
                                  !.algorithm_set = TRUE])
      [] t.opt = "histogram" ->
            IF o.algorithm_set THEN ParseExit(o, 1, FALSE)
            ELSE Parsed([o EXCEPT !.xpp_flags = @ \cup {"XDF_HISTOGRAM_DIFF"},
                                  !.algorithm_set = TRUE])
      [] t.opt = "h" -> ParseExit(o, 0, TRUE)
      [] t.opt = "moved" ->
            IF ~t.has_arg \/ t.str = "plain"
            THEN Parsed([o EXCEPT !.moved_mode = "MOVED_MODE_PLAIN"])
            ELSE IF t.str = "blocks" THEN Parsed([o EXCEPT !.moved_mode = "MOVED_MODE_BLOCKS"])
            ELSE IF t.str = "zebra" THEN Parsed([o EXCEPT !.moved_mode = "MOVED_MODE_ZEBRA"])
            ELSE IF t.str = "dimmed-zebra"
                 THEN Parsed([o EXCEPT !.moved_mode = "MOVED_MODE_DIMMED_ZEBRA"])
            ELSE IF t.str = "no" THEN Parsed([o EXCEPT !.moved_mode = "MOVED_MODE_NO"])
            ELSE ParseExit(o, 1, FALSE)
      [] t.opt = "moved-ws" ->
            IF t.str = "ignore-all"
            THEN Parsed([o EXCEPT !.moved_ws_mode = "MOVED_WS_IGNORE_ALL"])
            ELSE IF t.str = "ignore-change"
                 THEN Parsed([o EXCEPT !.moved_ws_mode = "MOVED_WS_IGNORE_CHANGE"])
            ELSE IF t.str = "ignore-at-eol"
                 THEN Parsed([o EXCEPT !.moved_ws_mode = "MOVED_WS_IGNORE_AT_EOL"])
            ELSE ParseExit(o, 1, FALSE)
      [] OTHER -> ParseExit(o, 1, FALSE)

\* The getopt loop with algorithm_set forgotten before each option.
RECURSIVE ParseOptionsForgetAlgorithm(_, _)
ParseOptionsForgetAlgorithm(o, opts) ==
    IF opts = <<>> THEN Parsed(o)
    ELSE LET r == ParseOption([o EXCEPT !.algorithm_set = FALSE], Head(opts))
         IN  IF r.exit THEN r ELSE ParseOptionsForgetAlgorithm(r.o, Tail(opts))

\* The getopt loop over the options of the command line.
RECURSIVE ParseOptions(_, _)
ParseOptions(o, opts) ==
    IF opts = <<>> THEN Parsed(o)
    ELSE LET r == ParseOption(o, Head(opts))
         IN  IF r.exit THEN r ELSE ParseOptions(r.o, Tail(opts))

\* Option parsing without the check of the number of file arguments.
ParseCommandLineAnyFiles(opts, nfiles) == ParseOptions(DefaultOptions, opts)

\* Option parsing and the check for exactly two file arguments.
ParseCommandLine(opts, nfiles) ==
    LET r == ParseOptions(DefaultOptions, opts)
    IN  IF r.exit THEN r
        ELSE IF nfiles # 2 THEN ParseExit(r.o, 1, TRUE)
        ELSE r

\* What the program writes to standard output, piece by piece.
OutFileHeader(k, name) == [k |-> k, n |-> <<>>, s |-> <<name>>]
OutHunkHeader(ob, on, nb, nn) == [k |-> "@@", n |-> <<ob, on, nb, nn>>, s |-> <<>>]
OutBytes(bytes) == [k |-> "bytes", n |-> <<>>, s |-> bytes]
OutDiffer == [k |-> "differ", n |-> <<>>, s |-> <<FILE1, FILE2>>]

\* fwrite of bytes to standard output: the bytes follow those of an
\* unfinished line.
Write(o, bytes) ==
    IF bytes = <<>> THEN o
    ELSE IF /\ o # <<>>
            /\ o[Len(o)].k = "bytes"
            /\ o[Len(o)].s[Len(o[Len(o)].s)] # "\n"
         THEN [o EXCEPT ![Len(o)] = OutBytes(@.s \o bytes)]
         ELSE Append(o, OutBytes(bytes))

\* struct diff_context as main sets it up before xdl_diff.
NewDiffContext(brief, moved_mode) ==
    [brief |-> brief, first_hunk |-> TRUE, has_differences |-> FALSE,
     moved_ctx |-> moved_mode # "MOVED_MODE_NO",
     current_old_line |-> 0, current_new_line |-> 0]

\* out_hunk_cb without the early return of brief mode.
out_hunk_cb_no_brief(c, o, old_begin, old_nr, new_begin, new_nr) ==
    [ctx |-> [c EXCEPT !.has_differences = TRUE, !.first_hunk = FALSE,
                       !.current_old_line = old_begin,
                       !.current_new_line = new_begin],
     out |-> o
             \o (IF c.first_hunk
                 THEN <<OutFileHeader("---", FILE1), OutFileHeader("+++", FILE2)>>
                 ELSE <<>>)
             \o <<OutHunkHeader(old_begin, old_nr, new_begin, new_nr)>>,
     rc |-> 0]

\* out_hunk_cb that never clears first_hunk.
out_hunk_cb_keeps_first_hunk(c, o, old_begin, old_nr, new_begin, new_nr) ==
    IF c.brief THEN [ctx |-> [c EXCEPT !.has_differences = TRUE], out |-> o, rc |-> 0]
    ELSE [ctx |-> [c EXCEPT !.has_differences = TRUE,
                            !.current_old_line = old_begin,
                            !.current_new_line = new_begin],
          out |-> o
                  \o (IF c.first_hunk
                      THEN <<OutFileHeader("---", FILE1), OutFileHeader("+++", FILE2)>>
                      ELSE <<>>)
                  \o <<OutHunkHeader(old_begin, old_nr, new_begin, new_nr)>>,
          rc |-> 0]

\* out_hunk_cb: the context and the output it leaves; it returns 0.
out_hunk_cb(c, o, old_begin, old_nr, new_begin, new_nr) ==
    IF c.brief THEN [ctx |-> [c EXCEPT !.has_differences = TRUE], out |-> o, rc |-> 0]
    ELSE [ctx |-> [c EXCEPT !.has_differences = TRUE, !.first_hunk = FALSE,
                            !.current_old_line = old_begin,
                            !.current_new_line = new_begin],
          out |-> o
                  \o (IF c.first_hunk
                      THEN <<OutFileHeader("---", FILE1), OutFileHeader("+++", FILE2)>>
                      ELSE <<>>)
                  \o <<OutHunkHeader(old_begin, old_nr, new_begin, new_nr)>>,
          rc |-> 0]

\* One turn of the loop of out_line_cb, on the buffer line.
OutLineBuffer(c, mctx, o, line) ==
    IF line = <<>> THEN [ctx |-> c, out |-> o]
    ELSE LET first == line[1]
             line_num == IF first = "-" THEN c.current_old_line
                         ELSE IF first = "+" THEN c.current_new_line
                         ELSE 0
             c2 == IF first = "-" THEN [c EXCEPT !.current_old_line = @ + 1]
                   ELSE IF first = "+" THEN [c EXCEPT !.current_new_line = @ + 1]
                   ELSE IF first = " " THEN [c EXCEPT !.current_old_line = @ + 1,
                                                      !.current_new_line = @ + 1]
                   ELSE c
             is_moved == /\ c.moved_ctx
                         /\ mctx.mode # "MOVED_MODE_NO"
                         /\ first \in {"-", "+"}
                         /\ is_line_moved(mctx, line_num, first = "-")
         IN  IF is_moved
             THEN [ctx |-> c2,
                   out |-> Write(Write(o, <<IF first = "-" THEN "<" ELSE ">">>),
                                 Tail(line))]
             ELSE [ctx |-> c2, out |-> Write(o, line)]

RECURSIVE OutLineLoop(_, _, _, _)
OutLineLoop(c, mctx, o, mb) ==
    IF mb = <<>> THEN [ctx |-> c, out |-> o, rc |-> 0]
    ELSE LET r == OutLineBuffer(c, mctx, o, Head(mb))
         IN  OutLineLoop(r.ctx, mctx, r.out, Tail(mb))

\* out_line_cb on the nb buffers mb; it returns 0.
out_line_cb(c, mctx, o, mb) ==
    IF c.brief THEN [ctx |-> c, out |-> o, rc |-> 0]
    ELSE OutLineLoop(c, mctx, o, mb)

\* ------------------------------------------------------------------------
\* Three-Way Merge Engine (xdl_merge)
\* ------------------------------------------------------------------------
MergeLevels ==
    {"XDL_MERGE_MINIMAL", "XDL_MERGE_EAGER", "XDL_MERGE_ZEALOUS", "XDL_MERGE_ZEALOUS_ALNUM"}
MergeFavors ==
    {"none", "XDL_MERGE_FAVOR_OURS", "XDL_MERGE_FAVOR_THEIRS", "XDL_MERGE_FAVOR_UNION"}
MergeStyles == {"merge", "XDL_MERGE_DIFF3"}

\* The two scripts walked in lockstep over the ancestor: the changes that
\* overlap or touch, whichever side they come from, form one region
\* [lo, hi) of the ancestor; c1 and c2 are its changes of each side.
RECURSIVE MergeWalk(_, _, _)
MergeWalk(s1, s2, acc) ==
    IF s1 = <<>> /\ s2 = <<>> THEN acc
    ELSE LET first == s2 = <<>> \/ (s1 # <<>> /\ Head(s1).i1 <= Head(s2).i1)
             c == IF first THEN Head(s1) ELSE Head(s2)
             r1 == IF first THEN Tail(s1) ELSE s1
             r2 == IF first THEN s2 ELSE Tail(s2)
             n == Len(acc)
         IN  IF n > 0 /\ c.i1 <= acc[n].hi
             THEN MergeWalk(r1, r2,
                     [acc EXCEPT ![n] =
                         [lo |-> @.lo, hi |-> Max(@.hi, c.i1 + c.chg1),
                          c1 |-> IF first THEN Append(@.c1, c) ELSE @.c1,
                          c2 |-> IF first THEN @.c2 ELSE Append(@.c2, c)]])
             ELSE MergeWalk(r1, r2,
                     Append(acc, [lo |-> c.i1, hi |-> c.i1 + c.chg1,
                                  c1 |-> IF first THEN <<c>> ELSE <<>>,
                                  c2 |-> IF first THEN <<>> ELSE <<c>>]))

\* The lines a variant f holds for the ancestor range [lo, hi), given the
\* changes cs of that variant inside the range.
VariantContent(orig, f, cs, lo, hi) ==
    IF cs = <<>> THEN Slice(orig, lo + 1, hi)
    ELSE LET last == cs[Len(cs)]
             start == cs[1].i2 - (cs[1].i1 - lo)
             end == last.i2 + last.chg2 + (hi - (last.i1 + last.chg1))
         IN  Slice(f, start + 1, end)

\* The pieces of the merged buffer: resolved text, or a conflict block.
MergeText(lines) == [kind |-> "text", v1 |-> lines, v2 |-> <<>>, anc |-> <<>>]
ConflictBlock(v1, v2, anc) == [kind |-> "conflict", v1 |-> v1, v2 |-> v2, anc |-> anc]

RECURSIVE CountAlnum(_)
CountAlnum(lines) ==
    IF lines = <<>> THEN 0 ELSE count_alnum(Head(lines)) + CountAlnum(Tail(lines))

\* zealous: the nested diff of the two contents; what it keeps is resolved,
\* what it changes stays a conflict.
RECURSIVE RefineWalk(_, _, _, _, _)
RefineWalk(nested, v1, v2, anc, pos) ==
    IF nested = <<>> THEN <<MergeText(Slice(v1, pos + 1, Len(v1)))>>
    ELSE LET h == Head(nested)
         IN  <<MergeText(Slice(v1, pos + 1, h.i1)),
               ConflictBlock(Slice(v1, h.i1 + 1, h.i1 + h.chg1),
                             Slice(v2, h.i2 + 1, h.i2 + h.chg2), anc)>>
             \o RefineWalk(Tail(nested), v1, v2, anc, h.i1 + h.chg1)

\* zealous-alnum: a divergent part without any alphanumeric character keeps
\* the region a full conflict.
RefineConflict(v1, v2, anc, level, flags) ==
    LET nested == ChangeScript(v1, v2, flags)
        bare == \E k \in 1..Len(nested) :
                    CountAlnum(Slice(v1, nested[k].i1 + 1, nested[k].i1 + nested[k].chg1)
                               \o Slice(v2, nested[k].i2 + 1, nested[k].i2 + nested[k].chg2))
                    = 0
    IN  IF level = "XDL_MERGE_ZEALOUS_ALNUM" /\ bare
        THEN <<ConflictBlock(v1, v2, anc)>>
        ELSE RefineWalk(nested, v1, v2, anc, 0)

\* The pieces of one region.
RegionPieces(r, orig, f1, f2, level, flags) ==
    LET v1 == VariantContent(orig, f1, r.c1, r.lo, r.hi)
        v2 == VariantContent(orig, f2, r.c2, r.lo, r.hi)
        anc == Slice(orig, r.lo + 1, r.hi)
    IN  IF r.c2 = <<>> THEN <<MergeText(v1)>>
        ELSE IF r.c1 = <<>> THEN <<MergeText(v2)>>
        ELSE IF v1 = v2 /\ level # "XDL_MERGE_MINIMAL" THEN <<MergeText(v1)>>
        ELSE IF level \in {"XDL_MERGE_ZEALOUS", "XDL_MERGE_ZEALOUS_ALNUM"}
             THEN RefineConflict(v1, v2, anc, level, flags)
             ELSE <<ConflictBlock(v1, v2, anc)>>

\* The pieces of the whole merge: the regions and the unchanged ancestor
\* lines between them, from ancestor line pos + 1 on.
RECURSIVE MergePieces(_, _, _, _, _, _, _)
MergePieces(regions, orig, f1, f2, level, flags, pos) ==
    IF regions = <<>> THEN <<MergeText(Slice(orig, pos + 1, Len(orig)))>>
    ELSE LET r == Head(regions)
         IN  <<MergeText(Slice(orig, pos + 1, r.lo))>>
             \o RegionPieces(r, orig, f1, f2, level, flags)
             \o MergePieces(Tail(regions), orig, f1, f2, level, flags, r.hi)

\* xdl_do_merge: the two diffs against the ancestor and the regions.
xdl_do_merge(orig, f1, f2, level, flags) ==
    MergePieces(MergeWalk(ChangeScript(orig, f1, flags), ChangeScript(orig, f2, flags), <<>>),
                orig, f1, f2, level, flags, 0)

\* A marker line: size repetitions of ch, then the label.
MarkerLine(ch, size, label) == [k \in 1..size |-> ch] \o <<" ", label>>
SeparatorLine(size) == [k \in 1..size |-> "="]

\* A conflict block written with one more separator, before the ancestor.
ConflictLinesTwoSeparators(b, xmp) ==
    <<MarkerLine("<", xmp.marker_size, xmp.file1)>> \o b.v1
    \o <<SeparatorLine(xmp.marker_size)>>
    \o (IF xmp.style = "XDL_MERGE_DIFF3"
        THEN <<MarkerLine("|", xmp.marker_size, xmp.ancestor)>> \o b.anc
        ELSE <<>>)
    \o <<SeparatorLine(xmp.marker_size)>> \o b.v2
    \o <<MarkerLine(">", xmp.marker_size, xmp.file2)>>

\* The lines of one conflict block: the favoured content, or the markers.
ConflictLines(b, xmp) ==
    IF xmp.favor = "XDL_MERGE_FAVOR_OURS" THEN b.v1
    ELSE IF xmp.favor = "XDL_MERGE_FAVOR_THEIRS" THEN b.v2
    ELSE IF xmp.favor = "XDL_MERGE_FAVOR_UNION" THEN b.v1 \o b.v2
    ELSE <<MarkerLine("<", xmp.marker_size, xmp.file1)>> \o b.v1
         \o (IF xmp.style = "XDL_MERGE_DIFF3"
             THEN <<MarkerLine("|", xmp.marker_size, xmp.ancestor)>> \o b.anc
             ELSE <<>>)
         \o <<SeparatorLine(xmp.marker_size)>> \o b.v2
         \o <<MarkerLine(">", xmp.marker_size, xmp.file2)>>

\* xdl_fill_merge_buffer: the lines of the merged buffer.
RECURSIVE FillMergeBuffer(_, _)
FillMergeBuffer(pieces, xmp) ==
    IF pieces = <<>> THEN <<>>
    ELSE (IF Head(pieces).kind = "text" THEN Head(pieces).v1
          ELSE ConflictLines(Head(pieces), xmp))
         \o FillMergeBuffer(Tail(pieces), xmp)

\* A count that does not look at the favor mode.
ConflictCountOfBlocks(pieces, xmp) ==
    Len(SelectSeq(pieces, LAMBDA b : b.kind = "conflict"))

\* The value xdl_merge returns: the conflict blocks left unresolved.
ConflictCount(pieces, xmp) ==
    IF xmp.favor # "none" THEN 0
    ELSE Len(SelectSeq(pieces, LAMBDA b : b.kind = "conflict"))

\* ------------------------------------------------------------------------
\* State
\* ------------------------------------------------------------------------
VARIABLES
    pc,            \* where the program is
    argv,          \* the options of the command line, in order
    nfiles,        \* the number of file arguments after the options
    disk1, disk2,  \* the lines of the two input files
    opt,           \* main's option locals
    mf1, mf2,      \* mmfile_t: ptr (set or NULL) and the lines it holds
    xpp,           \* xpparam_t: flags
    xecfg,         \* xdemitconf_t: ctxlen, interhunkctxlen
    moved_ctx,     \* struct moved_context
    moved_inited,  \* moved_context_init has run on moved_ctx
    ctx,           \* struct diff_context
    pending,       \* callbacks the running xdl_diff has still to make
    calls,         \* callbacks xdl_diff has made, in order
    cb_rcs,        \* what each of those callbacks returned
    cb_plan,       \* the library client: which callback fails, and its value
    out,           \* standard output
    err,           \* standard error: one entry per diagnostic
    ret,           \* main's ret, or the harness's xdl_diff / xdl_merge result
    status,        \* the exit status of the process, -1 while it runs
    ub,            \* the run has executed undefined behaviour
    mg,            \* the merge harness: inputs, parameters and result
    heap           \* moved_block structures: how many were allocated, how many freed

vars == <<pc, argv, nfiles, disk1, disk2, opt, mf1, mf2, xpp, xecfg, moved_ctx,
          moved_inited, ctx, pending, calls, cb_rcs, cb_plan, out, err, ret, status,
          ub, mg, heap>>

NullFile == [ptr |-> FALSE, lines |-> <<>>]

\* An object whose fields hold whatever the stack held.
Uninitialised == [mode |-> "MOVED_MODE_NO", ws_mode |-> "MOVED_WS_NO", min_block_size |-> 0,
                  deleted_blocks |-> <<>>, added_blocks |-> <<>>, zebra_counter |-> 0]

NoMerge == [run |-> FALSE]

\* The callbacks of the command-line program always return 0.
NoPlan == [at |-> 0, rc |-> 0]

\* ------------------------------------------------------------------------
\* Inputs of the command-line runs
\* ------------------------------------------------------------------------
LineA == <<"a">>
LineIndentedA == <<" ", "a">>
LineBlank == <<>>
CliLines == {LineA, LineIndentedA, LineBlank}
CliLines1 == {LineA, LineBlank}
CliLines2 == {LineA, LineIndentedA}

Line1 == <<"l", "i", "n", "e", "1">>
Line2 == <<"l", "i", "n", "e", "2">>
Line3 == <<"l", "i", "n", "e", "3">>
Modified == <<"m", "o", "d", "i", "f", "i", "e", "d">>
ExampleFile1 == <<Line1, Line2, Line3>>
ExampleFile2 == <<Line1, Modified, Line3>>

\* File 1 may hold blank lines and file 2 indented ones; two equal files hold
\* any of the lines; and the pair of the documented example.
CliFilePairs ==
    (SeqsUpTo(CliLines1, MaxLen) \X SeqsUpTo(CliLines2, MaxLen))
    \cup {<<f, f>> : f \in SeqsUpTo(CliLines, MaxLen)}
    \cup {<<ExampleFile1, ExampleFile2>>}

CliOptions ==
    {Opt("q"), Opt("w"), Opt("b"), Opt("B"), Opt("patience"), Opt("histogram"),
     OptNum("u", 0), OptNum("u", 1), OptStr("moved", "no")}

InitCommon ==
    /\ opt = DefaultOptions
    /\ moved_ctx = Uninitialised
    /\ moved_inited = FALSE
    /\ ctx = NewDiffContext(FALSE, "MOVED_MODE_NO")
    /\ pending = <<>>
    /\ calls = <<>>
    /\ cb_rcs = <<>>
    /\ out = <<>>
    /\ err = <<>>
    /\ ret = 0
    /\ status = -1
    /\ ub = FALSE
    /\ heap = [allocated |-> 0, freed |-> 0]

Init ==
    /\ pc = "main"
    /\ argv \in SeqsUpTo(CliOptions, MaxArgs)
    /\ nfiles = 2
    /\ \E p \in CliFilePairs : disk1 = p[1] /\ disk2 = p[2]
    /\ mf1 = NullFile
    /\ mf2 = NullFile
    /\ xpp = [flags |-> {}]
    /\ xecfg = [ctxlen |-> 0, interhunkctxlen |-> 0]
    /\ cb_plan = NoPlan
    /\ mg = NoMerge
    /\ InitCommon

\* ------------------------------------------------------------------------
\* main
\* ------------------------------------------------------------------------
\* Lines 243-375: option parsing and the file arguments.
ParseArgs ==
    /\ pc = "main"
    /\ LET r == ParseCommandLine(argv, nfiles)
       IN  /\ opt' = r.o
           /\ IF r.exit
              THEN /\ pc' = "exit"
                   /\ status' = r.ret
                   /\ ret' = r.ret
                   /\ err' = Append(err, IF r.usage THEN "usage" ELSE "option error")
              ELSE /\ pc' = "read1"
                   /\ UNCHANGED <<status, ret, err>>
    /\ UNCHANGED <<heap, argv, nfiles, disk1, disk2, mf1, mf2, xpp, xecfg, moved_ctx,
                   moved_inited, ctx, pending, calls, cb_rcs, out, ub, mg, cb_plan>>

\* Lines 377-382: read_file(file1, &mf1) succeeds, or fails in the system.
ReadFile1 ==
    /\ pc = "read1"
    /\ \/ /\ mf1' = [ptr |-> TRUE, lines |-> disk1]
          /\ pc' = "read2"
          /\ UNCHANGED <<err, ret>>
       \/ /\ err' = Append(err, "cannot read file1")
          /\ ret' = 1
          /\ pc' = "cleanup"
          /\ UNCHANGED mf1
    /\ UNCHANGED <<heap, argv, nfiles, disk1, disk2, opt, mf2, xpp, xecfg, moved_ctx,
                   moved_inited, ctx, pending, calls, cb_rcs, out, status, ub, mg, cb_plan>>

\* Lines 384-388.
ReadFile2 ==
    /\ pc = "read2"
    /\ \/ /\ mf2' = [ptr |-> TRUE, lines |-> disk2]
          /\ pc' = "configure"
          /\ UNCHANGED <<err, ret>>
       \/ /\ err' = Append(err, "cannot read file2")
          /\ ret' = 1
          /\ pc' = "cleanup"
          /\ UNCHANGED mf2
    /\ UNCHANGED <<heap, argv, nfiles, disk1, disk2, opt, mf1, xpp, xecfg, moved_ctx,
                   moved_inited, ctx, pending, calls, cb_rcs, out, status, ub, mg, cb_plan>>

\* Lines 390-400 with collect_blocks_from_diff called in every mode.
ConfigureAlwaysCollects ==
    /\ pc = "configure"
    /\ xpp' = [flags |-> opt.xpp_flags]
    /\ xecfg' = [ctxlen |-> opt.context_lines, interhunkctxlen |-> 0]
    /\ moved_ctx' = moved_context_init(opt.moved_mode, opt.moved_ws_mode)
    /\ moved_inited' = TRUE
    /\ pc' = "collect"
    /\ UNCHANGED <<heap, argv, nfiles, disk1, disk2, opt, mf1, mf2, ctx, pending, calls,
                   cb_rcs, out, err, ret, status, ub, mg, cb_plan>>

\* Lines 390-400: xpp, xecfg and moved_context_init.
Configure ==
    /\ pc = "configure"
    /\ xpp' = [flags |-> opt.xpp_flags]
    /\ xecfg' = [ctxlen |-> opt.context_lines, interhunkctxlen |-> 0]
    /\ moved_ctx' = moved_context_init(opt.moved_mode, opt.moved_ws_mode)
    /\ moved_inited' = TRUE
    /\ pc' = IF opt.moved_mode # "MOVED_MODE_NO" THEN "collect" ELSE "setup"
    /\ UNCHANGED <<heap, argv, nfiles, disk1, disk2, opt, mf1, mf2, ctx, pending, calls,
                   cb_rcs, out, err, ret, status, ub, mg, cb_plan>>

\* The moved_block structures the lists of a context hold.
BlockCount(c) == Len(c.deleted_blocks) + Len(c.added_blocks)

\* Lines 402-403: the call of collect_blocks_from_diff.  It returns -1 when
\* xdl_do_diff or the script cannot be built, or when one of its
\* allocations fails; the blocks it allocated before are then in the lists.
\* A record that leaves more than NORMALIZED_SIZE bytes is written past the
\* end of the buffer on the stack: the call may go on as if the buffer had
\* been large enough, or the process is killed in it (status 134, SIGABRT
\* of the stack protector, or 139, SIGSEGV).
CollectBlocks ==
    /\ pc = "collect"
    /\ LET xscr == ChangeScript(mf1.lines, mf2.lines, xpp.flags)
       IN  \/ \E failAt \in 0..AllocCount(xscr) :
                LET r == collect_blocks_from_diff(xscr, mf1.lines, mf2.lines,
                                                  moved_ctx, failAt)
                    overflow == CollectWritten(xscr, mf1.lines, mf2.lines,
                                               moved_ctx.ws_mode, 0, failAt)
                                    > NORMALIZED_SIZE
                IN  \E killed \in IF overflow THEN {0, 134, 139} ELSE {0} :
                        /\ ub' = (ub \/ overflow)
                        /\ IF killed = 0
                           THEN /\ moved_ctx' = r.ctx
                                /\ heap' = [heap EXCEPT !.allocated =
                                              @ + BlockCount(r.ctx)
                                                - BlockCount(moved_ctx)]
                                /\ pc' = IF r.ret < 0 THEN "collect_failed"
                                         ELSE "setup"
                                /\ UNCHANGED status
                           ELSE /\ status' = killed
                                /\ pc' = "exit"
                                /\ UNCHANGED <<moved_ctx, heap>>
           \/ /\ pc' = "collect_failed"
              /\ UNCHANGED <<moved_ctx, heap, status, ub>>
    /\ UNCHANGED <<argv, nfiles, disk1, disk2, opt, mf1, mf2, xpp, xecfg, moved_inited,
                   ctx, pending, calls, cb_rcs, out, err, ret, mg, cb_plan>>

\* Lines 404-409: collect_blocks_from_diff returned -1.
CollectFailed ==
    /\ pc = "collect_failed"
    /\ err' = Append(err, "failed to collect blocks")
    /\ heap' = [heap EXCEPT !.freed = @ + BlockCount(moved_ctx)]
    /\ moved_ctx' = moved_context_free(moved_ctx)
    /\ ret' = 1
    /\ pc' = "cleanup"
    /\ UNCHANGED <<argv, nfiles, disk1, disk2, opt, mf1, mf2, xpp, xecfg, moved_inited,
                   ctx, pending, calls, cb_rcs, out, status, ub, mg, cb_plan>>

\* xdl_diff up to its first callback: the events it will deliver.
XdlDiffEvents == EmitEvents(mf1.lines, mf2.lines, xpp.flags, xecfg.ctxlen,
                            xecfg.interhunkctxlen)

\* Lines 412-428: the callback context, and the call of xdl_diff, which
\* may fail before it makes any callback.
CallXdlDiff ==
    /\ pc = "setup"
    /\ ctx' = NewDiffContext(opt.brief, opt.moved_mode)
    /\ \/ /\ pending' = XdlDiffEvents
          /\ pc' = "emit"
          /\ UNCHANGED ret
       \/ /\ pending' = <<>>
          /\ ret' = -1
          /\ pc' = "returned"
    /\ UNCHANGED <<heap, argv, nfiles, disk1, disk2, opt, mf1, mf2, xpp, xecfg, moved_ctx,
                   moved_inited, calls, cb_rcs, out, err, status, ub, mg, cb_plan>>

\* An xdl_diff that goes on whatever its callbacks return.
XdlIgnoresCallback(rc) ==
    /\ calls' = Append(calls, Head(pending))
    /\ cb_rcs' = Append(cb_rcs, rc)
    /\ pending' = Tail(pending)
    /\ UNCHANGED <<ret, pc>>

\* What xdl_diff does with the value rc a callback returned for the event at
\* the head of pending: a negative value aborts the call.
XdlAfterCallback(rc) ==
    /\ calls' = Append(calls, Head(pending))
    /\ cb_rcs' = Append(cb_rcs, rc)
    /\ IF rc < 0
       THEN /\ pending' = <<>>
            /\ ret' = -1
            /\ pc' = "returned"
       ELSE /\ pending' = Tail(pending)
            /\ UNCHANGED <<ret, pc>>

\* xdl_diff calls out_hunk_cb.
CliOutHunk ==
    /\ pc = "emit"
    /\ pending # <<>>
    /\ Head(pending).ev = "hunk"
    /\ LET e == Head(pending)
           r == out_hunk_cb(ctx, out, e.old_begin, e.old_nr, e.new_begin, e.new_nr)
       IN  /\ ctx' = r.ctx
           /\ out' = r.out
           /\ XdlAfterCallback(r.rc)
    /\ UNCHANGED <<heap, argv, nfiles, disk1, disk2, opt, mf1, mf2, xpp, xecfg, moved_ctx,
                   moved_inited, err, status, ub, mg, cb_plan>>

\* xdl_diff calls out_line_cb, with the line in one buffer or in two.
CliOutLine ==
    /\ pc = "emit"
    /\ pending # <<>>
    /\ Head(pending).ev = "line"
    /\ \E nb \in {1, 2} :
          LET r == out_line_cb(ctx, moved_ctx, out, LineBuffers(Head(pending), nb))
          IN  /\ ctx' = r.ctx
              /\ out' = r.out
              /\ XdlAfterCallback(r.rc)
    /\ UNCHANGED <<heap, argv, nfiles, disk1, disk2, opt, mf1, mf2, xpp, xecfg, moved_ctx,
                   moved_inited, err, status, ub, mg, cb_plan>>

\* xdl_diff returns 0 after its last callback.
XdlDiffReturn ==
    /\ pc = "emit"
    /\ pending = <<>>
    /\ ret' = 0
    /\ pc' = "returned"
    /\ UNCHANGED <<heap, argv, nfiles, disk1, disk2, opt, mf1, mf2, xpp, xecfg, moved_ctx,
                   moved_inited, ctx, pending, calls, cb_rcs, out, err, status, ub, mg, cb_plan>>

\* Lines 430-443 with the exit status 1 whenever a difference was found, in
\* normal mode as in brief mode.
AfterDiffStatusOfDifferences ==
    /\ pc = "returned"
    /\ IF ret < 0
       THEN /\ err' = Append(err, "diff computation failed")
            /\ ret' = 1
            /\ UNCHANGED out
       ELSE /\ out' = IF opt.brief /\ ctx.has_differences THEN Append(out, OutDiffer) ELSE out
            /\ ret' = IF ctx.has_differences THEN 1 ELSE 0
            /\ UNCHANGED err
    /\ pc' = "cleanup"
    /\ UNCHANGED <<heap, argv, nfiles, disk1, disk2, opt, mf1, mf2, xpp, xecfg, moved_ctx,
                   moved_inited, ctx, pending, calls, cb_rcs, cb_plan, status, ub, mg>>

\* Lines 430-443 with brief mode reporting a difference without looking at
\* has_differences.
AfterDiffBriefAlwaysDiffers ==
    /\ pc = "returned"
    /\ IF ret < 0
       THEN /\ err' = Append(err, "diff computation failed")
            /\ ret' = 1
            /\ UNCHANGED out
       ELSE /\ out' = IF opt.brief THEN Append(out, OutDiffer) ELSE out
            /\ ret' = IF opt.brief THEN 1 ELSE 0
            /\ UNCHANGED err
    /\ pc' = "cleanup"
    /\ UNCHANGED <<heap, argv, nfiles, disk1, disk2, opt, mf1, mf2, xpp, xecfg, moved_ctx,
                   moved_inited, ctx, pending, calls, cb_rcs, cb_plan, status, ub, mg>>

\* Lines 430-443 with normal mode exiting 1 after a successful xdl_diff, as
\* diff(1) does when it printed differences.
AfterDiffNormalExitsOne ==
    /\ pc = "returned"
    /\ IF ret < 0
       THEN /\ err' = Append(err, "diff computation failed")
            /\ ret' = 1
            /\ UNCHANGED out
       ELSE IF opt.brief
            THEN IF ctx.has_differences
                 THEN /\ out' = Append(out, OutDiffer)
                      /\ ret' = 1
                      /\ UNCHANGED err
                 ELSE /\ ret' = 0
                      /\ UNCHANGED <<out, err>>
            ELSE /\ ret' = IF out # <<>> THEN 1 ELSE 0
                 /\ UNCHANGED <<out, err>>
    /\ pc' = "cleanup"
    /\ UNCHANGED <<heap, argv, nfiles, disk1, disk2, opt, mf1, mf2, xpp, xecfg, moved_ctx,
                   moved_inited, ctx, pending, calls, cb_rcs, status, ub, mg, cb_plan>>

\* Lines 430-443: the exit status from xdl_diff's result.
AfterDiff ==
    /\ pc = "returned"
    /\ IF ret < 0
       THEN /\ err' = Append(err, "diff computation failed")
            /\ ret' = 1
            /\ UNCHANGED out
       ELSE IF opt.brief
            THEN IF ctx.has_differences
                 THEN /\ out' = Append(out, OutDiffer)
                      /\ ret' = 1
                      /\ UNCHANGED err
                 ELSE /\ ret' = 0
                      /\ UNCHANGED <<out, err>>
            ELSE /\ ret' = 0
                 /\ UNCHANGED <<out, err>>
    /\ pc' = "cleanup"
    /\ UNCHANGED <<heap, argv, nfiles, disk1, disk2, opt, mf1, mf2, xpp, xecfg, moved_ctx,
                   moved_inited, ctx, pending, calls, cb_rcs, status, ub, mg, cb_plan>>

\* Lines 445-450: cleanup.  After a read failure moved_ctx was never
\* initialised, so moved_context_free frees whatever its two list pointers
\* hold on the stack: the call may go through, and main releases the files
\* and returns ret, or the process is killed inside it (status 139,
\* SIGSEGV) before any buffer is released.  mf1 and mf2 were set to NULL at
\* lines 243-247, so free_file is safe on a file that was never read.
Cleanup ==
    /\ pc = "cleanup"
    /\ \/ /\ heap' = [heap EXCEPT !.freed = @ + BlockCount(moved_ctx)]
          /\ moved_ctx' = moved_context_free(moved_ctx)
          /\ mf1' = NullFile
          /\ mf2' = NullFile
          /\ status' = ret
       \/ /\ ~moved_inited
          /\ status' = 139
          /\ UNCHANGED <<moved_ctx, mf1, mf2, heap>>
    /\ ub' = (ub \/ ~moved_inited)
    /\ pc' = "exit"
    /\ UNCHANGED <<argv, nfiles, disk1, disk2, opt, xpp, xecfg, moved_inited, ctx,
                   pending, calls, cb_rcs, out, err, ret, mg, cb_plan>>

Next ==
    \/ ParseArgs
    \/ ReadFile1
    \/ ReadFile2
    \/ Configure
    \/ CollectBlocks
    \/ CollectFailed
    \/ CallXdlDiff
    \/ CliOutHunk
    \/ CliOutLine
    \/ XdlDiffReturn
    \/ AfterDiff
    \/ Cleanup

Spec == Init /\ [][Next]_vars

\* ------------------------------------------------------------------------
\* A client of the library: it calls xdl_diff on two files in memory with
\* callbacks that record what they are given; one of them may fail.
\* ------------------------------------------------------------------------
DiffLines == {LineA, LineIndentedA}

\* Two changes two lines apart, and the documented example.
TwoHunkFile1 == <<LineIndentedA, LineA, LineA, LineIndentedA>>
TwoHunkFile2 == <<LineA, LineA>>

DiffInputs ==
    {[f1 |-> a, f2 |-> b, ctxlen |-> c] :
        a \in SeqsUpTo(DiffLines, MaxDiffLen), b \in SeqsUpTo(DiffLines, MaxDiffLen),
        c \in {0, 1}}
    \cup {[f1 |-> TwoHunkFile1, f2 |-> TwoHunkFile2, ctxlen |-> 1],
          [f1 |-> ExampleFile1, f2 |-> ExampleFile2, ctxlen |-> 3]}

DiffFlags ==
    {alg \cup ws : alg \in {{}, {"XDF_PATIENCE_DIFF"}, {"XDF_HISTOGRAM_DIFF"}},
                   ws \in {{}, {"XDF_IGNORE_WHITESPACE"}}}

\* No callback fails, or callback number at returns rc.
CallbackPlans(n) == {NoPlan} \cup {[at |-> k, rc |-> r] : k \in 1..n, r \in {-1, 1}}

InitDiff ==
    /\ pc = "lib_call"
    /\ argv = <<>>
    /\ nfiles = 2
    /\ \E i \in DiffInputs :
          /\ disk1 = i.f1
          /\ disk2 = i.f2
          /\ xecfg = [ctxlen |-> i.ctxlen, interhunkctxlen |-> 0]
    /\ mf1 = [ptr |-> TRUE, lines |-> disk1]
    /\ mf2 = [ptr |-> TRUE, lines |-> disk2]
    /\ \E f \in DiffFlags : xpp = [flags |-> f]
    /\ cb_plan \in CallbackPlans(Len(XdlDiffEvents))
    /\ mg = NoMerge
    /\ InitCommon

\* The client calls xdl_diff, which may fail before it makes any callback.
LibCallXdlDiff ==
    /\ pc = "lib_call"
    /\ \/ /\ pending' = XdlDiffEvents
          /\ pc' = "emit"
          /\ UNCHANGED ret
       \/ /\ pending' = <<>>
          /\ ret' = -1
          /\ pc' = "returned"
    /\ UNCHANGED <<heap, argv, nfiles, disk1, disk2, opt, mf1, mf2, xpp, xecfg, moved_ctx,
                   moved_inited, ctx, calls, cb_rcs, cb_plan, out, err, status, ub, mg>>

\* What the client's callback number n returns.
ClientReturn(n) == IF n = cb_plan.at THEN cb_plan.rc ELSE 0

\* xdl_diff calls the client's out_hunk.
LibOutHunk ==
    /\ pc = "emit"
    /\ pending # <<>>
    /\ Head(pending).ev = "hunk"
    /\ XdlAfterCallback(ClientReturn(Len(calls) + 1))
    /\ UNCHANGED <<heap, argv, nfiles, disk1, disk2, opt, mf1, mf2, xpp, xecfg, moved_ctx,
                   moved_inited, ctx, cb_plan, out, err, status, ub, mg>>

\* xdl_diff calls the client's out_line.
LibOutLine ==
    /\ pc = "emit"
    /\ pending # <<>>
    /\ Head(pending).ev = "line"
    /\ XdlAfterCallback(ClientReturn(Len(calls) + 1))
    /\ UNCHANGED <<heap, argv, nfiles, disk1, disk2, opt, mf1, mf2, xpp, xecfg, moved_ctx,
                   moved_inited, ctx, cb_plan, out, err, status, ub, mg>>

NextDiff ==
    \/ LibCallXdlDiff
    \/ LibOutHunk
    \/ LibOutLine
    \/ XdlDiffReturn

SpecDiff == InitDiff /\ [][NextDiff]_vars

\* ------------------------------------------------------------------------
\* Properties of the command-line program (Spec)
\* ------------------------------------------------------------------------
\* The run went through main without a diagnostic and has exited.
Completed == pc = "exit" /\ err = <<>> /\ ~ub

\* xdl_diff has invoked the hunk callback at least once.
HunkCalled == \E i \in 1..Len(calls) : calls[i].ev = "hunk"

\* C1 as stated: a completed run exits 1 when differences were found and 0
\* when none were, in brief and in normal mode alike.
C1_ExitOneOnDifferences ==
    Completed => status = (IF HunkCalled THEN 1 ELSE 0)

\* C1: a completed run exits 0 when no difference was found; when differences
\* were found it exits 1 in brief mode and 0 in normal mode.
C1_ExitStatus ==
    Completed => status = (IF opt.brief /\ HunkCalled THEN 1 ELSE 0)

C1_NormalModeDifferences ==
    Completed /\ ~opt.brief /\ HunkCalled /\ out # <<>> /\ status = 0

\* The run of the documented example with the default options.
ExampleRun ==
    /\ disk1 = ExampleFile1
    /\ disk2 = ExampleFile2
    /\ argv = <<>>
    /\ Completed

ExampleLineEvents ==
    <<LineEvent(" ", Line1), LineEvent("-", Line2), LineEvent("+", Modified),
      LineEvent(" ", Line3)>>

\* C7 as stated: the example diff reports one hunk with old range (2,1) and
\* new range (2,1) and the lines ' line1', '-line2', '+modified', ' line3'.
C7_ReportedChangeRange ==
    ExampleRun => calls = <<HunkEvent(2, 1, 2, 1)>> \o ExampleLineEvents

\* C7: the example diff has one change hunk, old range (2,1) and new range
\* (2,1); with ctxlen 3 the ranges reported to the hunk callback are (1,3)
\* and (1,3), and the lines are ' line1', '-line2', '+modified', ' line3'.
C7_Example ==
    ExampleRun =>
        /\ ChangeScript(disk1, disk2, {})
              = <<[i1 |-> 1, chg1 |-> 1, i2 |-> 1, chg2 |-> 1, ignore |-> FALSE]>>
        /\ xecfg.ctxlen = 3
        /\ calls = <<HunkEvent(1, 3, 1, 3)>> \o ExampleLineEvents
        /\ out = <<OutFileHeader("---", FILE1), OutFileHeader("+++", FILE2),
                   OutHunkHeader(1, 3, 1, 3),
                   OutBytes(<<" ">> \o Line1 \o <<"\n">>),
                   OutBytes(<<"-">> \o Line2 \o <<"\n">>),
                   OutBytes(<<"+">> \o Modified \o <<"\n">>),
                   OutBytes(<<" ">> \o Line3 \o <<"\n">>)>>

C7_ExampleDone == ExampleRun /\ Len(calls) = 5 /\ status = 0

C10_BriefMode ==
    opt.brief =>
        /\ \A i \in 1..Len(out) : out[i] = OutDiffer
        /\ Len(out) <= 1
        /\ out # <<>> => HunkCalled
        /\ Completed => IF HunkCalled
                        THEN out = <<OutDiffer>> /\ status = 1
                        ELSE out = <<>> /\ status = 0

C10_BriefDiffers ==
    opt.brief /\ Completed /\ HunkCalled /\ out = <<OutDiffer>> /\ status = 1

\* xdl_diff has returned to main without an error and without any
\* diagnostic before it.
XdlDiffSucceeded == pc \in {"cleanup", "exit"} /\ moved_inited /\ err = <<>>

\* C11: in normal (non-brief) mode, whenever xdl_diff succeeds main's result
\* is 0 and the process exits with status 0, also when the files differ and
\* a diff was printed.
C11_NormalModeExitsZero ==
    (~opt.brief /\ XdlDiffSucceeded) =>
        /\ ret = 0
        /\ pc = "exit" => status = 0

C11_PatienceDiffPrinted ==
    /\ ~opt.brief
    /\ "XDF_PATIENCE_DIFF" \in xpp.flags
    /\ XdlDiffSucceeded
    /\ pc = "exit"
    /\ disk1 # disk2
    /\ \E i \in 1..Len(out) : out[i].k = "bytes"
    /\ status = 0

\* read_file failed on the first or on the second file.
ReadFailed(n) ==
    \E i \in 1..Len(err) :
        err[i] = (IF n = 1 THEN "cannot read file1" ELSE "cannot read file2")

\* C12 as stated: after a read failure the diagnostic is the only output,
\* neither collect_blocks_from_diff nor xdl_diff was called, the exit
\* status is not 0, and after a failure on the second file the first
\* file's buffer has been released when the process ends.
C12_ReadFailure ==
    (ReadFailed(1) \/ ReadFailed(2)) =>
        /\ Len(err) = 1
        /\ out = <<>> /\ calls = <<>> /\ pending = <<>>
        /\ moved_ctx.deleted_blocks = <<>> /\ moved_ctx.added_blocks = <<>>
        /\ pc \in {"cleanup", "exit"}
        /\ pc = "exit" => (status # 0 /\ (ReadFailed(2) => ~mf1.ptr))

\* What does hold after a read failure: everything C12 says but the
\* release of the first buffer, which is certain only in the runs whose
\* cleanup reaches free_file.
C12_ReadFailureDiagnosed ==
    (ReadFailed(1) \/ ReadFailed(2)) =>
        /\ Len(err) = 1
        /\ out = <<>> /\ calls = <<>> /\ pending = <<>>
        /\ moved_ctx.deleted_blocks = <<>> /\ moved_ctx.added_blocks = <<>>
        /\ pc \in {"cleanup", "exit"}
        /\ pc = "exit" => (status # 0 /\ ((ReadFailed(2) /\ status = ret) => ~mf1.ptr))

C12_SecondFileUnreadable ==
    ReadFailed(2) /\ pc = "exit" /\ status = 1 /\ ~mf1.ptr /\ disk1 # <<>>

\* ------------------------------------------------------------------------
\* Properties of xdl_diff as a library client sees it (SpecDiff)
\* ------------------------------------------------------------------------
\* xdl_diff has computed its change hunks and has made no callback yet.
JustCalled == pc = "emit" /\ calls = <<>>

XdlChangeScript == ChangeScript(mf1.lines, mf2.lines, xpp.flags)

\* File 1 with the old range of every hunk replaced by the hunk's new range
\* of file 2, from line pos + 1 of file 1 on.
RECURSIVE PatchForward(_, _, _, _)
PatchForward(script, f1, f2, pos) ==
    IF script = <<>> THEN Slice(f1, pos + 1, Len(f1))
    ELSE LET h == Head(script)
         IN  Slice(f1, pos + 1, h.i1)
             \o Slice(f2, h.i2 + 1, h.i2 + h.chg2)
             \o PatchForward(Tail(script), f1, f2, h.i1 + h.chg1)

\* File 2 with the new range of every hunk replaced by the hunk's old range.
RECURSIVE PatchBackward(_, _, _, _)
PatchBackward(script, f1, f2, pos) ==
    IF script = <<>> THEN Slice(f2, pos + 1, Len(f2))
    ELSE LET h == Head(script)
         IN  Slice(f2, pos + 1, h.i2)
             \o Slice(f1, h.i1 + 1, h.i1 + h.chg1)
             \o PatchBackward(Tail(script), f1, f2, h.i2 + h.chg2)

WhitespaceFlags ==
    {"XDF_IGNORE_WHITESPACE", "XDF_IGNORE_WHITESPACE_CHANGE",
     "XDF_IGNORE_WHITESPACE_AT_EOL", "XDF_IGNORE_BLANK_LINES"}

\* C2 as stated: under each algorithm, patching file 1 with the hunks gives
\* the lines of file 2 exactly, and patching file 2 backwards gives file 1.
C2_ExactLines ==
    JustCalled =>
        /\ PatchForward(XdlChangeScript, mf1.lines, mf2.lines, 0) = mf2.lines
        /\ PatchBackward(XdlChangeScript, mf1.lines, mf2.lines, 0) = mf1.lines

\* C2: under each algorithm, patching file 1 with the hunks gives the class-id
\* sequence of file 2, and patching file 2 backwards that of file 1; when no
\* whitespace is ignored the lines themselves are reconstructed exactly.
C2_Reconstruction ==
    JustCalled =>
        LET f1 == mf1.lines
            f2 == mf2.lines
            table == EquivalenceTable(f1, f2, xpp.flags)
            fwd == PatchForward(XdlChangeScript, f1, f2, 0)
            bwd == PatchBackward(XdlChangeScript, f1, f2, 0)
        IN  /\ ClassSeq(fwd, xpp.flags, table) = ClassSeq(f2, xpp.flags, table)
            /\ ClassSeq(bwd, xpp.flags, table) = ClassSeq(f1, xpp.flags, table)
            /\ xpp.flags \cap WhitespaceFlags = {} => fwd = f2 /\ bwd = f1

C2_PatchedUpToWhitespace ==
    /\ JustCalled
    /\ "XDF_HISTOGRAM_DIFF" \in xpp.flags
    /\ "XDF_IGNORE_WHITESPACE" \in xpp.flags
    /\ Len(XdlChangeScript) = 1
    /\ PatchForward(XdlChangeScript, mf1.lines, mf2.lines, 0) # mf2.lines

\* The hunk callbacks made so far.
HunkCalls == SelectSeq(calls, LAMBDA e : e.ev = "hunk")

ScriptOrdered(script) ==
    \A k \in 1..(Len(script) - 1) :
        /\ script[k].i1 < script[k + 1].i1
        /\ script[k].i2 < script[k + 1].i2
        /\ script[k].i1 + script[k].chg1 <= script[k + 1].i1
        /\ script[k].i2 + script[k].chg2 <= script[k + 1].i2

\* C3: the change hunks of a diff are strictly increasing and do not overlap,
\* in the old and in the new coordinates, and neither do the ranges given
\* to the hunk callback, which include the context.
C3_HunksOrdered ==
    /\ JustCalled => ScriptOrdered(XdlChangeScript)
    /\ \A k \in 1..(Len(HunkCalls) - 1) :
          /\ HunkCalls[k].old_begin + HunkCalls[k].old_nr <= HunkCalls[k + 1].old_begin
          /\ HunkCalls[k].new_begin + HunkCalls[k].new_nr <= HunkCalls[k + 1].new_begin

C3_TwoHunksWithContext ==
    /\ pc = "returned"
    /\ ret = 0
    /\ xecfg.ctxlen = 1
    /\ Len(HunkCalls) = 2
    /\ HunkCalls[1].old_nr = 2
    /\ HunkCalls[1].old_begin + HunkCalls[1].old_nr = HunkCalls[2].old_begin

\* C4 as stated: a callback that returns a non-zero value is the last one
\* xdl_diff invokes, and xdl_diff returns a negative value.
C4_NonZeroAborts ==
    \A i \in 1..Len(cb_rcs) :
        cb_rcs[i] # 0 => i = Len(calls) /\ pc = "returned" /\ ret < 0

\* C4: a callback that returns a negative value is the last one xdl_diff
\* invokes, and xdl_diff returns a negative value; when xdl_diff returns,
\* the callbacks have been given the events up to that one, in order, and
\* all of them when it returns 0.
C4_NegativeAborts ==
    /\ \A i \in 1..Len(cb_rcs) :
          cb_rcs[i] < 0 => i = Len(calls) /\ pc = "returned" /\ ret < 0 /\ pending = <<>>
    /\ Len(cb_rcs) = Len(calls)
    /\ pc = "returned" =>
          LET events == XdlDiffEvents
          IN  /\ Len(calls) <= Len(events)
              /\ calls = SubSeq(events, 1, Len(calls))
              /\ ret = 0 => calls = events

C4_AbortedMidway ==
    /\ pc = "returned"
    /\ ret < 0
    /\ Len(calls) >= 2
    /\ Len(calls) < Len(XdlDiffEvents)
    /\ cb_rcs[Len(calls)] < 0
    /\ calls[Len(calls)].ev = "line"

\* The index of the hunk callback after call i, or one past the last call.
NextHunkIndex(i) ==
    IF \E j \in (i + 1)..Len(calls) : calls[j].ev = "hunk"
    THEN CHOOSE j \in (i + 1)..Len(calls) :
            /\ calls[j].ev = "hunk"
            /\ \A k \in (i + 1)..(j - 1) : calls[k].ev = "line"
    ELSE Len(calls) + 1

\* How many of the calls lo..hi carry a line with a role marker of tags.
CountLines(lo, hi, tags) == Cardinality({k \in lo..hi : calls[k].tag \in tags})

\* How many context lines open, and close, the calls lo..hi.
LeadingContext(lo, hi) ==
    Cardinality({k \in lo..hi : \A m \in lo..k : calls[m].tag = " "})
TrailingContext(lo, hi) ==
    Cardinality({k \in lo..hi : \A m \in k..hi : calls[m].tag = " "})

\* C8: the ranges given to the hunk callback include the context: old_nr is
\* the number of ' ' and '-' lines then emitted for the hunk and new_nr the
\* number of ' ' and '+' lines, and the hunk opens and closes with ctxlen
\* context lines unless it reaches the boundary of a file; the documented
\* example with ctxlen 3 is reported as -1,3 +1,3.
C8_RangesIncludeContext ==
    (pc = "returned" /\ ret = 0) =>
        /\ \A i \in 1..Len(calls) :
              calls[i].ev = "hunk" =>
                  LET lo == i + 1
                      hi == NextHunkIndex(i) - 1
                      h == calls[i]
                  IN  /\ h.old_nr = CountLines(lo, hi, {" ", "-"})
                      /\ h.new_nr = CountLines(lo, hi, {" ", "+"})
                      /\ LeadingContext(lo, hi) < hi - lo + 1
                      /\ LeadingContext(lo, hi) <= xecfg.ctxlen
                      /\ \/ LeadingContext(lo, hi) = xecfg.ctxlen
                         \/ h.old_begin = 1
                         \/ h.new_begin = 1
                      /\ TrailingContext(lo, hi) <= xecfg.ctxlen
                      /\ \/ TrailingContext(lo, hi) = xecfg.ctxlen
                         \/ h.old_begin + h.old_nr - 1 = Len(mf1.lines)
                         \/ h.new_begin + h.new_nr - 1 = Len(mf2.lines)
        /\ (mf1.lines = ExampleFile1 /\ mf2.lines = ExampleFile2 /\ xecfg.ctxlen = 3)
              => HunkCalls = <<HunkEvent(1, 3, 1, 3)>>

C8_ExampleReported ==
    /\ pc = "returned"
    /\ ret = 0
    /\ mf1.lines = ExampleFile1
    /\ mf2.lines = ExampleFile2
    /\ xecfg.ctxlen = 3
    /\ xpp.flags = {}
    /\ calls[1] = HunkEvent(1, 3, 1, 3)
    /\ CountLines(2, Len(calls), {" ", "-"}) = 3

\* ------------------------------------------------------------------------
\* A client of the library that calls xdl_merge (SpecMerge)
\* ------------------------------------------------------------------------
LineB == <<"b">>
LineC == <<"c">>

DEFAULT_CONFLICT_MARKER_SIZE == 7

MergeParams ==
    [marker_size : {DEFAULT_CONFLICT_MARKER_SIZE}, level : MergeLevels,
     favor : MergeFavors, style : MergeStyles,
     ancestor : {"original"}, file1 : {"file1"}, file2 : {"file2"}]

\* Variant 1 changes lines to b, variant 2 changes lines to c.
MergeInputs ==
    [orig : SeqsUpTo({LineA, LineB}, MaxMergeLen),
     f1 : SeqsUpTo({LineA, LineB}, MaxMergeLen),
     f2 : SeqsUpTo({LineA, LineC}, MaxMergeLen)]

NoResult == [ptr |-> FALSE, lines |-> <<>>]

InitMerge ==
    /\ pc = "merge_call"
    /\ argv = <<>>
    /\ nfiles = 0
    /\ disk1 = <<>>
    /\ disk2 = <<>>
    /\ mf1 = NullFile
    /\ mf2 = NullFile
    /\ xpp = [flags |-> {}]
    /\ xecfg = [ctxlen |-> 0, interhunkctxlen |-> 0]
    /\ cb_plan = NoPlan
    /\ \E i \in MergeInputs, x \in MergeParams :
          mg = [run |-> TRUE, orig |-> i.orig, f1 |-> i.f1, f2 |-> i.f2, xmp |-> x,
                pieces |-> <<>>, result |-> NoResult]
    /\ InitCommon

\* xdl_merge up to the regions; it fails when an allocation fails.
XdlMergeRegions ==
    /\ pc = "merge_call"
    /\ \/ /\ mg' = [mg EXCEPT !.pieces = xdl_do_merge(mg.orig, mg.f1, mg.f2,
                                                       mg.xmp.level, xpp.flags)]
          /\ pc' = "merge_fill"
          /\ UNCHANGED ret
       \/ /\ ret' = -1
          /\ pc' = "merge_done"
          /\ UNCHANGED mg
    /\ UNCHANGED <<heap, argv, nfiles, disk1, disk2, opt, mf1, mf2, xpp, xecfg, moved_ctx,
                   moved_inited, ctx, pending, calls, cb_rcs, cb_plan, out, err, status, ub>>

\* xdl_merge allocates and fills the result and returns the conflict count;
\* it fails when the result cannot be allocated.
XdlMergeFill ==
    /\ pc = "merge_fill"
    /\ \/ /\ mg' = [mg EXCEPT !.result = [ptr |-> TRUE,
                                          lines |-> FillMergeBuffer(mg.pieces, mg.xmp)]]
          /\ ret' = ConflictCount(mg.pieces, mg.xmp)
       \/ /\ ret' = -1
          /\ UNCHANGED mg
    /\ pc' = "merge_done"
    /\ UNCHANGED <<heap, argv, nfiles, disk1, disk2, opt, mf1, mf2, xpp, xecfg, moved_ctx,
                   moved_inited, ctx, pending, calls, cb_rcs, cb_plan, out, err, status, ub>>

NextMerge ==
    \/ XdlMergeRegions
    \/ XdlMergeFill

SpecMerge == InitMerge /\ [][NextMerge]_vars

\* ------------------------------------------------------------------------
\* Properties of xdl_merge (SpecMerge)
\* ------------------------------------------------------------------------
\* xdl_merge has returned with a result.
Merged == pc = "merge_done" /\ mg.result.ptr

\* The conflict blocks the merged buffer holds: its opening marker lines.  (No
\* line of the inputs is a marker line.)
OpeningMarkers ==
    Len(SelectSeq(mg.result.lines,
                  LAMBDA l : l = MarkerLine("<", mg.xmp.marker_size, mg.xmp.file1)))
ClosingMarkers ==
    Len(SelectSeq(mg.result.lines,
                  LAMBDA l : l = MarkerLine(">", mg.xmp.marker_size, mg.xmp.file2)))

MergeRegions ==
    MergeWalk(ChangeScript(mg.orig, mg.f1, xpp.flags),
              ChangeScript(mg.orig, mg.f2, xpp.flags), <<>>)

\* No ancestor range is changed by both variants.
CleanMerge ==
    \A k \in 1..Len(MergeRegions) : MergeRegions[k].c1 = <<>> \/ MergeRegions[k].c2 = <<>>

\* C5: xdl_merge returns the number of conflict blocks the merged buffer holds
\* with markers: 0 for a clean merge and whenever favor is ours, theirs or
\* union, a positive count when marked conflicts remain, and a negative
\* value only when it fails, in which case there is no result.
C5_ConflictCount ==
    pc = "merge_done" =>
        /\ mg.result.ptr => /\ ret = OpeningMarkers
                            /\ ret = ClosingMarkers
                            /\ ret >= 0
                            /\ mg.xmp.favor # "none" => ret = 0
                            /\ CleanMerge => ret = 0
        /\ ~mg.result.ptr => ret < 0

C5_TwoConflicts ==
    Merged /\ ret = 2 /\ OpeningMarkers = 2 /\ mg.xmp.favor = "none"

\* C6: merging ancestor a, variant 1 b and variant 2 c with markers of size 7
\* in diff3 style gives one conflict block: 7 '<' and file1, b, 7 '|' and
\* original, a, 7 '=', c, 7 '>' and file2; xdl_merge returns 1.
C6_ConflictMarkers ==
    (/\ Merged
     /\ mg.orig = <<LineA>> /\ mg.f1 = <<LineB>> /\ mg.f2 = <<LineC>>
     /\ mg.xmp.marker_size = 7
     /\ mg.xmp.style = "XDL_MERGE_DIFF3"
     /\ mg.xmp.favor = "none")
    => /\ mg.result.lines =
            <<<<"<", "<", "<", "<", "<", "<", "<", " ", "file1">>,
              <<"b">>,
              <<"|", "|", "|", "|", "|", "|", "|", " ", "original">>,
              <<"a">>,
              <<"=", "=", "=", "=", "=", "=", "=">>,
              <<"c">>,
              <<">", ">", ">", ">", ">", ">", ">", " ", "file2">>>>
       /\ ret = 1

C6_ExampleMerged ==
    /\ Merged
    /\ mg.orig = <<LineA>> /\ mg.f1 = <<LineB>> /\ mg.f2 = <<LineC>>
    /\ mg.xmp.marker_size = 7
    /\ mg.xmp.style = "XDL_MERGE_DIFF3"
    /\ mg.xmp.favor = "none"
    /\ mg.xmp.level = "XDL_MERGE_ZEALOUS"
    /\ Len(mg.result.lines) = 7

\* ------------------------------------------------------------------------
\* The command-line program on files with moved blocks (SpecMoved)
\* ------------------------------------------------------------------------
LinePlusA == <<"+", "a">>
LineDashA == <<"-", "a">>
LineATrailing == <<"a", " ">>
LineAB == <<"a", " ", "b">>
LineAWideB == <<"a", " ", " ", "b">>

\* Lines of 20 and of 19 alphanumeric characters.
Long20 == SubSeq(LowerCase, 1, MIN_BLOCK_SIZE)
Long19 == SubSeq(LowerCase, 1, MIN_BLOCK_SIZE - 1)

MovedLines == {LineA, LineIndentedA, LinePlusA}

\* A line moved from the head of file 1 to the tail of file 2, past two
\* lines that stay.
MovedPast(from, to, stay) == <<<<from, stay, stay>>, <<stay, stay, to>>>>

\* Two lines exchanged around a line that stays: each deleted line is also
\* an added line.
Exchanged == <<<<LinePlusA, LineA, LineIndentedA>>, <<LineIndentedA, LineA, LinePlusA>>>>

\* A two-line block whose lines begin with '-', moved past three lines.
DashBlockMoved ==
    <<<<LineDashA, LineDashA, LineA, LineA, LineA>>,
      <<LineA, LineA, LineA, LineDashA, LineDashA>>>>

\* The same long line moved twice: two deleted and two added blocks with
\* one hash.
MovedTwice ==
    <<<<Long20, LineA, Long20, LineB, LineB, LineA>>,
      <<LineA, LineB, LineB, Long20, LineA, Long20>>>>

\* Two lines with one djb2 hash: 97 * 33 + 114 = 99 * 33 + 48.
LineAR == <<"a", "r">>
LineC0 == <<"c", "0">>

\* A line deleted at the head of file 1 and another line with its hash
\* added at the tail of file 2.
HashCollision == MovedPast(LineAR, LineC0, LineB)

MovedScenarios ==
    {Exchanged, DashBlockMoved, MovedTwice, HashCollision,
     MovedPast(Long20, Long20, LineA), MovedPast(Long19, Long19, LineA),
     MovedPast(LineBlank, LineBlank, LineA),
     MovedPast(LineIndentedA, LineA, LineB),
     MovedPast(LineATrailing, LineA, LineB),
     MovedPast(LineAWideB, LineAB, LineB)}

MovedFilePairs == SeqsUpTo(MovedLines, MaxLen) \X SeqsUpTo(MovedLines, MaxLen)

MovedModeOptions ==
    {OptStr("moved", "no"), OptStr("moved", "plain"), OptStr("moved", "blocks"),
     OptStr("moved", "zebra"), OptStr("moved", "dimmed-zebra")}
MovedWsOptions ==
    {OptStr("moved-ws", "ignore-all"), OptStr("moved-ws", "ignore-change"),
     OptStr("moved-ws", "ignore-at-eol")}

\* The command lines of the small file pairs, and those of the scenarios.
MovedCommandLines ==
    {<<>>, <<OptStr("moved", "no")>>, <<OptStr("moved", "zebra")>>, <<Opt("w")>>,
     <<OptNum("u", 0)>>}
    \cup {<<o>> : o \in MovedWsOptions}
ScenarioCommandLines ==
    MovedCommandLines
    \cup {<<o>> : o \in MovedModeOptions}
    \cup {<<Opt("B")>>, <<Opt("B"), OptStr("moved", "no")>>}
    \cup {<<Opt("w"), o>> : o \in MovedWsOptions}
    \cup {<<OptStr("moved", "blocks"), o>> : o \in MovedWsOptions}

InitMoved ==
    /\ pc = "main"
    /\ \E r \in (MovedFilePairs \X MovedCommandLines)
                \cup (MovedScenarios \X ScenarioCommandLines) :
           /\ disk1 = r[1][1]
           /\ disk2 = r[1][2]
           /\ argv = r[2]
    /\ nfiles = 2
    /\ mf1 = NullFile
    /\ mf2 = NullFile
    /\ xpp = [flags |-> {}]
    /\ xecfg = [ctxlen |-> 0, interhunkctxlen |-> 0]
    /\ cb_plan = NoPlan
    /\ mg = NoMerge
    /\ InitCommon

SpecMoved == InitMoved /\ [][Next]_vars

\* ------------------------------------------------------------------------
\* Properties of the move markers (SpecMoved)
\* ------------------------------------------------------------------------
\* What the callbacks print for the events evs when move detection is off
\* (--moved=no): out_hunk_cb and out_line_cb with no moved context.
RECURSIVE PlainOutput(_, _, _)
PlainOutput(evs, c, o) ==
    IF evs = <<>> THEN o
    ELSE LET e == Head(evs)
             r == IF e.ev = "hunk"
                  THEN out_hunk_cb(c, o, e.old_begin, e.old_nr, e.new_begin, e.new_nr)
                  ELSE out_line_cb(c, moved_context_init("MOVED_MODE_NO", "MOVED_WS_NO"),
                                   o, LineBuffers(e, 1))
         IN  PlainOutput(Tail(evs), r.ctx, r.out)

\* The output of the same callbacks under --moved=no.
OutputWithoutMoved == PlainOutput(calls, NewDiffContext(opt.brief, "MOVED_MODE_NO"), <<>>)

\* The piece p of the output is the piece q, or the line q with its marker
\* '-' printed as '<' or its marker '+' printed as '>'.
SameButMarker(p, q) ==
    \/ p = q
    \/ /\ p.k = "bytes" /\ q.k = "bytes"
       /\ Len(p.s) = Len(q.s)
       /\ Tail(p.s) = Tail(q.s)
       /\ <<q.s[1], p.s[1]>> \in {<<"-", "<">>, <<"+", ">">>}

\* C13: the output with move detection is the output without it, piece by
\* piece, but for the marker of some deleted and added lines: headers, the
\* number and order of lines and every byte of line content are the same,
\* whatever the content begins with and however many buffers carry a line.
C13_OnlyMarkerDiffers ==
    ~opt.brief =>
        LET plain == OutputWithoutMoved
        IN  /\ Len(out) = Len(plain)
            /\ \A i \in 1..Len(out) : SameButMarker(out[i], plain[i])

\* The marker of the line event e, whose line is number old of file 1 or
\* number new of file 2.
MarkerOf(e, old, new) ==
    IF e.tag = "-" /\ is_line_moved(moved_ctx, old, TRUE) THEN "<"
    ELSE IF e.tag = "+" /\ is_line_moved(moved_ctx, new, FALSE) THEN ">"
    ELSE e.tag

\* The markers of the lines of evs, hunk headers standing as "@": each hunk
\* gives the numbers of its first lines, a deleted or a context line takes
\* the next number of file 1, an added or a context line the next of file 2.
RECURSIVE ExpectedMarkers(_, _, _)
ExpectedMarkers(evs, old, new) ==
    IF evs = <<>> THEN <<>>
    ELSE LET e == Head(evs)
         IN  IF e.ev = "hunk"
             THEN <<"@">> \o ExpectedMarkers(Tail(evs), e.old_begin, e.new_begin)
             ELSE <<MarkerOf(e, old, new)>>
                  \o ExpectedMarkers(Tail(evs),
                                     IF e.tag \in {"-", " "} THEN old + 1 ELSE old,
                                     IF e.tag \in {"+", " "} THEN new + 1 ELSE new)

\* The markers that were printed: the first byte of every line, "@" for a
\* hunk header; the file headers are left out.
PrintedMarkers ==
    LET body == SelectSeq(out, LAMBDA p : p.k \in {"bytes", "@@"})
    IN  [i \in 1..Len(body) |-> IF body[i].k = "@@" THEN "@" ELSE body[i].s[1]]

\* C14: a deleted line is printed with '<' exactly when its line number in
\* file 1 lies in a matched deleted block, an added line with '>' exactly
\* when its line number in file 2 lies in a matched added block, and a
\* context line is printed with its space (checked while the blocks of the
\* moved context are still allocated).
C14_MarkerIffInMatchedBlock ==
    (~opt.brief /\ pc \in {"emit", "returned", "cleanup"}) =>
        PrintedMarkers = ExpectedMarkers(calls, 0, 0)

\* ------------------------------------------------------------------------
\* Properties of the collected blocks (SpecMoved)
\* ------------------------------------------------------------------------
\* collect_blocks_from_diff has just returned 0 to main.
Collected == pc = "setup" /\ opt.moved_mode # "MOVED_MODE_NO"

DeletedBlocks == moved_ctx.deleted_blocks
AddedBlocks == moved_ctx.added_blocks
MatchedDeleted == {i \in 1..Len(DeletedBlocks) : DeletedBlocks[i].matched}
MatchedAdded == {k \in 1..Len(AddedBlocks) : AddedBlocks[k].matched}

\* The deleted block i and the added block k point at each other and have
\* one hash.
Paired(i, k) ==
    /\ DeletedBlocks[i].hash = AddedBlocks[k].hash
    /\ DeletedBlocks[i].match_line = AddedBlocks[k].start_line
    /\ AddedBlocks[k].match_line = DeletedBlocks[i].start_line

\* C15: after collect_blocks_from_diff returned 0 in a mode other than 'no',
\* every matched deleted block is paired with exactly one matched added
\* block, every matched added block with exactly one matched deleted block,
\* and there are as many matched deleted blocks as matched added blocks.
C15_OneToOnePairing ==
    Collected =>
        /\ \A i \in MatchedDeleted :
               Cardinality({k \in MatchedAdded : Paired(i, k)}) = 1
        /\ \A k \in MatchedAdded :
               Cardinality({i \in MatchedDeleted : Paired(i, k)}) = 1
        /\ Cardinality(MatchedDeleted) = Cardinality(MatchedAdded)

C15_TwoPairsOfOneHash ==
    /\ Collected
    /\ opt.moved_mode = "MOVED_MODE_PLAIN"
    /\ Cardinality(MatchedDeleted) = 2
    /\ Cardinality(MatchedAdded) = 2
    /\ \A i \in MatchedDeleted, k \in MatchedAdded :
           DeletedBlocks[i].hash = AddedBlocks[k].hash

\* The alphanumeric characters of the lines start_line..end_line of a file.
BlockAlnum(file, b) == CountAlnum(Slice(file, b.start_line, b.end_line))

FilteringModes == {"MOVED_MODE_BLOCKS", "MOVED_MODE_ZEBRA", "MOVED_MODE_DIMMED_ZEBRA"}

\* C16: in the modes blocks, zebra and dimmed-zebra every block still
\* matched has at least 20 alphanumeric characters, and a pair whose content
\* has fewer has both of its blocks unmarked; in plain mode every pair that
\* was formed is still matched.
C16_SizeFilter ==
    Collected =>
        IF opt.moved_mode \in FilteringModes
        THEN /\ \A i \in MatchedDeleted :
                    BlockAlnum(disk1, DeletedBlocks[i]) >= MIN_BLOCK_SIZE
             /\ \A k \in MatchedAdded :
                    BlockAlnum(disk2, AddedBlocks[k]) >= MIN_BLOCK_SIZE
             /\ \A i \in 1..Len(DeletedBlocks), k \in 1..Len(AddedBlocks) :
                    (Paired(i, k) /\ BlockAlnum(disk1, DeletedBlocks[i]) < MIN_BLOCK_SIZE)
                        => (~DeletedBlocks[i].matched /\ ~AddedBlocks[k].matched)
        ELSE /\ \A i \in 1..Len(DeletedBlocks) :
                    DeletedBlocks[i].match_line # -1 => DeletedBlocks[i].matched
             /\ \A k \in 1..Len(AddedBlocks) :
                    AddedBlocks[k].match_line # -1 => AddedBlocks[k].matched

C16_ShortPairUnmarked ==
    /\ Collected
    /\ opt.moved_mode = "MOVED_MODE_BLOCKS"
    /\ <<disk1, disk2>> = MovedPast(Long19, Long19, LineA)
    /\ \E i \in 1..Len(DeletedBlocks), k \in 1..Len(AddedBlocks) :
           /\ Paired(i, k)
           /\ BlockAlnum(disk1, DeletedBlocks[i]) = MIN_BLOCK_SIZE - 1
           /\ ~DeletedBlocks[i].matched
           /\ ~AddedBlocks[k].matched

\* C17 as stated: in zebra and dimmed-zebra modes the two blocks of every
\* matched pair carry one zebra_index, which is not negative, two pairs
\* carry two indices, and no matched block is left with zebra_index -1.
C17_ZebraIndices ==
    (Collected /\ opt.moved_mode \in {"MOVED_MODE_ZEBRA", "MOVED_MODE_DIMMED_ZEBRA"}) =>
        /\ \A i \in MatchedDeleted, k \in MatchedAdded :
               Paired(i, k) =>
                   /\ DeletedBlocks[i].zebra_index = AddedBlocks[k].zebra_index
                   /\ DeletedBlocks[i].zebra_index >= 0
        /\ \A i, j \in MatchedDeleted :
               i # j => DeletedBlocks[i].zebra_index # DeletedBlocks[j].zebra_index
        /\ \A i \in MatchedDeleted : DeletedBlocks[i].zebra_index # -1
        /\ \A k \in MatchedAdded : AddedBlocks[k].zebra_index # -1

\* What holds of the zebra indices: those of the matched deleted blocks
\* are 0, 1, ... in list order, and a pair whose hash no other matched
\* added block has carries one index.
C17_ZebraIndicesOfDistinctHashes ==
    (Collected /\ opt.moved_mode \in {"MOVED_MODE_ZEBRA", "MOVED_MODE_DIMMED_ZEBRA"}) =>
        /\ \A i \in MatchedDeleted :
               DeletedBlocks[i].zebra_index
                   = Cardinality({j \in MatchedDeleted : j < i})
        /\ moved_ctx.zebra_counter = Cardinality(MatchedDeleted)
        /\ \A i \in MatchedDeleted, k \in MatchedAdded :
               (/\ Paired(i, k)
                /\ \A m \in MatchedAdded :
                       AddedBlocks[m].hash = AddedBlocks[k].hash => m = k)
                   => AddedBlocks[k].zebra_index = DeletedBlocks[i].zebra_index

C17_OnePairIndexed ==
    /\ Collected
    /\ opt.moved_mode = "MOVED_MODE_ZEBRA"
    /\ Cardinality(MatchedDeleted) = 1
    /\ \A i \in MatchedDeleted, k \in MatchedAdded :
           DeletedBlocks[i].zebra_index = 0 /\ AddedBlocks[k].zebra_index = 0

\* The changes of the script that carry the ignore flag.
IgnoredChanges ==
    LET xscr == ChangeScript(disk1, disk2, xpp.flags)
    IN  {n \in 1..Len(xscr) : xscr[n].ignore}

\* C18: a change that is ignored under the ignore-blank-lines policy has
\* no block in deleted_blocks or added_blocks, and none of its lines is
\* reported as moved.
C18_IgnoredHunksCollectNothing ==
    Collected =>
        LET xscr == ChangeScript(disk1, disk2, xpp.flags)
        IN  \A n \in IgnoredChanges :
                /\ \A i \in 1..Len(DeletedBlocks) :
                       \/ DeletedBlocks[i].end_line <= xscr[n].i1
                       \/ DeletedBlocks[i].start_line > xscr[n].i1 + xscr[n].chg1
                /\ \A k \in 1..Len(AddedBlocks) :
                       \/ AddedBlocks[k].end_line <= xscr[n].i2
                       \/ AddedBlocks[k].start_line > xscr[n].i2 + xscr[n].chg2
                /\ \A l \in (xscr[n].i1 + 1)..(xscr[n].i1 + xscr[n].chg1) :
                       ~is_line_moved(moved_ctx, l, TRUE)
                /\ \A l \in (xscr[n].i2 + 1)..(xscr[n].i2 + xscr[n].chg2) :
                       ~is_line_moved(moved_ctx, l, FALSE)

C18_BlankLineMoved ==
    /\ Collected
    /\ <<disk1, disk2>> = MovedPast(LineBlank, LineBlank, LineA)
    /\ Cardinality(IgnoredChanges) = 2
    /\ DeletedBlocks = <<>>
    /\ AddedBlocks = <<>>

\* The command line names no --moved option.
NoMovedOption == \A n \in 1..Len(argv) : argv[n].opt # "moved"

\* The line numbers a file of the run can have, and one below and above.
LineNumbers == 0..(Max(Len(disk1), Len(disk2)) + 1)

\* C19: without a --moved option the mode is plain, in main and in the
\* moved context; with --moved=no main never reaches the call of
\* collect_blocks_from_diff, no block is collected, is_line_moved is 0 for
\* every line, and no line of the output begins with '<' or '>'.
C19_DefaultPlainAndNo ==
    /\ (NoMovedOption /\ pc # "main") =>
           /\ opt.moved_mode = "MOVED_MODE_PLAIN"
           /\ moved_inited => moved_ctx.mode = "MOVED_MODE_PLAIN"
    /\ opt.moved_mode = "MOVED_MODE_NO" =>
           /\ pc # "collect"
           /\ DeletedBlocks = <<>> /\ AddedBlocks = <<>>
           /\ \A l \in LineNumbers :
                  ~is_line_moved(moved_ctx, l, TRUE) /\ ~is_line_moved(moved_ctx, l, FALSE)
           /\ \A i \in 1..Len(out) : out[i].k = "bytes" => out[i].s[1] \in {" ", "-", "+"}

C19_MovedLinePrintedPlain ==
    /\ argv = <<OptStr("moved", "no")>>
    /\ <<disk1, disk2>> = MovedPast(Long20, Long20, LineA)
    /\ pc = "exit"
    /\ status = 0
    /\ \E i \in 1..Len(out) : out[i] = OutBytes(<<"-">> \o Long20 \o <<"\n">>)
    /\ \E i \in 1..Len(out) : out[i] = OutBytes(<<"+">> \o Long20 \o <<"\n">>)

\* Trailing whitespace stripped.
RECURSIVE StripTrailingSpace(_)
StripTrailingSpace(line) ==
    IF line = <<>> THEN <<>>
    ELSE IF IsSpace(line[Len(line)]) THEN StripTrailingSpace(SubSeq(line, 1, Len(line) - 1))
    ELSE line

\* A line as the --moved-ws modes are documented to compare it.
DocumentedNormalization(line, ws_mode) ==
    CASE ws_mode = "MOVED_WS_IGNORE_ALL" -> StripAllSpace(line)
      [] ws_mode = "MOVED_WS_IGNORE_CHANGE" -> CollapseSpace(line, FALSE)
      [] ws_mode = "MOVED_WS_IGNORE_AT_EOL" -> StripTrailingSpace(line)
      [] OTHER -> line

\* The blocks b1 of file f1 and b2 of file f2 have as many lines, and
\* their lines are equal one by one under the documented normalization.
EqualNormalized(f1, b1, f2, b2, ws_mode) ==
    /\ b1.end_line - b1.start_line = b2.end_line - b2.start_line
    /\ \A n \in 0..(b1.end_line - b1.start_line) :
           DocumentedNormalization(f1[b1.start_line + n], ws_mode)
               = DocumentedNormalization(f2[b2.start_line + n], ws_mode)

\* C20: two collected blocks with as many lines, whose lines are equal
\* under the normalization of the selected --moved-ws mode, have equal
\* hashes, whatever whitespace flags the diff itself runs with.
C20_EqualNormalizedEqualHash ==
    Collected =>
        /\ \A i \in 1..Len(DeletedBlocks), k \in 1..Len(AddedBlocks) :
               EqualNormalized(disk1, DeletedBlocks[i], disk2, AddedBlocks[k],
                               opt.moved_ws_mode)
                   => DeletedBlocks[i].hash = AddedBlocks[k].hash
        /\ \A i, j \in 1..Len(DeletedBlocks) :
               EqualNormalized(disk1, DeletedBlocks[i], disk1, DeletedBlocks[j],
                               opt.moved_ws_mode)
                   => DeletedBlocks[i].hash = DeletedBlocks[j].hash

C20_WideSpaceMatched ==
    /\ Collected
    /\ opt.moved_ws_mode = "MOVED_WS_IGNORE_CHANGE"
    /\ <<disk1, disk2>> = MovedPast(LineAWideB, LineAB, LineB)
    /\ Len(DeletedBlocks) = 1 /\ Len(AddedBlocks) = 1
    /\ DeletedBlocks[1].hash = AddedBlocks[1].hash
    /\ DeletedBlocks[1].matched /\ AddedBlocks[1].matched

\* ------------------------------------------------------------------------
\* The command-line program on every short command line (SpecArgs)
\* ------------------------------------------------------------------------
ArgsOptions ==
    {Opt("patience"), Opt("histogram"), Opt("minimal"), Opt("q"), Opt("w"), Opt("h"),
     Opt("invalid-option"), OptStr("moved", "no"), OptStr("moved", "sideways"),
     OptStr("moved-ws", "ignore-none"), OptNum("u", 1), OptNum("u", -1)}

ArgsFilePairs == {<<ExampleFile1, ExampleFile2>>, <<<<LineA>>, <<LineA>>>>}

InitArgs ==
    /\ pc = "main"
    /\ argv \in SeqsUpTo(ArgsOptions, MaxParseArgs)
    /\ nfiles \in 1..3
    /\ \E p \in ArgsFilePairs : disk1 = p[1] /\ disk2 = p[2]
    /\ mf1 = NullFile
    /\ mf2 = NullFile
    /\ xpp = [flags |-> {}]
    /\ xecfg = [ctxlen |-> 0, interhunkctxlen |-> 0]
    /\ cb_plan = NoPlan
    /\ mg = NoMerge
    /\ InitCommon

SpecArgs == InitArgs /\ [][Next]_vars

\* ------------------------------------------------------------------------
\* Properties of option parsing (SpecArgs)
\* ------------------------------------------------------------------------
AlgorithmOptions == {"patience", "histogram"}
AlgorithmFlags == {"XDF_PATIENCE_DIFF", "XDF_HISTOGRAM_DIFF"}
KnownOptions ==
    {"u", "c", "q", "w", "b", "B", "minimal", "patience", "histogram", "h", "moved",
     "moved-ws"}

\* The option n of the command line is an algorithm option that follows
\* another one.
SecondAlgorithm(n) ==
    /\ argv[n].opt \in AlgorithmOptions
    /\ \E m \in 1..(n - 1) : argv[m].opt \in AlgorithmOptions

\* The option n is one the program rejects by itself.
Rejected(n) ==
    \/ argv[n].opt \notin KnownOptions
    \/ /\ argv[n].opt = "moved" /\ argv[n].has_arg
       /\ argv[n].str \notin {"plain", "blocks", "zebra", "dimmed-zebra", "no"}
    \/ /\ argv[n].opt = "moved-ws"
       /\ argv[n].str \notin {"ignore-all", "ignore-change", "ignore-at-eol"}
    \/ argv[n].opt \in {"u", "c"} /\ argv[n].has_arg /\ argv[n].num < 0

\* The options at which the option loop returns from main.
Stops == {n \in 1..Len(argv) : SecondAlgorithm(n) \/ Rejected(n) \/ argv[n].opt = "h"}

\* The first of them: the option loop reads the options in order and goes
\* no further.
FirstStop == CHOOSE n \in Stops : \A m \in Stops : n <= m

\* main has returned without reading a file or computing a diff.
ExitedBeforeReading ==
    /\ pc = "exit"
    /\ ~mf1.ptr /\ ~mf2.ptr
    /\ ~moved_inited
    /\ xpp.flags = {}
    /\ calls = <<>> /\ pending = <<>> /\ out = <<>>
    /\ ~ReadFailed(1) /\ ~ReadFailed(2)
    /\ ~ub

\* C21: the flags passed to the engine never hold both XDF_PATIENCE_DIFF
\* and XDF_HISTOGRAM_DIFF; when the option loop comes to a second algorithm
\* option, the same or the other one, main exits with status 1 before any
\* file is read; with no algorithm option neither flag is passed, which
\* selects Myers.
C21_OneAlgorithm ==
    /\ ~(AlgorithmFlags \subseteq xpp.flags)
    /\ (pc # "main" /\ pc # "exit") => ~(AlgorithmFlags \subseteq opt.xpp_flags)
    /\ (pc # "main" /\ Stops # {} /\ SecondAlgorithm(FirstStop)) =>
           (ExitedBeforeReading /\ status = 1)
    /\ (\A n \in 1..Len(argv) : argv[n].opt \notin AlgorithmOptions) =>
           (xpp.flags \cap AlgorithmFlags = {} /\ opt.xpp_flags \cap AlgorithmFlags = {})
    /\ (moved_inited /\ Stops = {}) =>
           xpp.flags \cap AlgorithmFlags
               = {f \in AlgorithmFlags :
                     \E n \in 1..Len(argv) :
                         argv[n].opt = (IF f = "XDF_PATIENCE_DIFF" THEN "patience"
                                        ELSE "histogram")}

C21_HistogramAfterPatience ==
    /\ argv = <<Opt("patience"), Opt("histogram")>>
    /\ nfiles = 2
    /\ ExitedBeforeReading
    /\ status = 1

\* C23: when the option loop comes to an unrecognised option, an invalid
\* --moved or --moved-ws value or a negative context-line count, or when
\* the options are accepted and the file arguments are not exactly two, main
\* exits with a status other than 0 before any file is read; when it comes
\* to --help it prints the usage text and exits with status 0.
C23_RejectedCommandLine ==
    pc # "main" =>
        IF Stops # {}
        THEN /\ ExitedBeforeReading
             /\ IF argv[FirstStop].opt = "h"
                THEN status = 0 /\ err = <<"usage">>
                ELSE status # 0 /\ status # -1
        ELSE IF nfiles # 2
             THEN ExitedBeforeReading /\ status # 0 /\ status # -1 /\ err = <<"usage">>
             ELSE ~ExitedBeforeReading

C23_ThreeFileArguments ==
    /\ argv = <<Opt("patience")>>
    /\ nfiles = 3
    /\ ExitedBeforeReading
    /\ status = 1
    /\ err = <<"usage">>

\* ------------------------------------------------------------------------
\* Failure of the collection, and the moved_block structures on the heap.

\* collect_blocks_from_diff has returned -1 to main.
CollectReturnedFailure == pc = "collect_failed"

\* C22: when collect_blocks_from_diff fails it returns -1 and leaves no
\* partial result behind: neither list of the context holds a block.
C22_NoPartialResults ==
    CollectReturnedFailure => BlockCount(moved_ctx) = 0

\* The collection failed at its second allocation, after the deleted block
\* of the exchanged lines was put on its list.
C22_FailedAfterFirstBlock ==
    /\ CollectReturnedFailure
    /\ Len(moved_ctx.deleted_blocks) = 1
    /\ Len(moved_ctx.added_blocks) = 0

\* main is about to call moved_context_free(&moved_ctx): at line 406 after
\* a failed collection, at line 446 in cleanup.
AboutToFreeContext == pc \in {"collect_failed", "cleanup"}

\* C24: on every path through main, moved_context_free is applied only to
\* a context that moved_context_init has initialised, the paths on which
\* read_file fails included.
C24_FreeOnlyInitialised ==
    AboutToFreeContext => moved_inited

\* The second file could not be read and main is at cleanup.
C24_CleanupAfterReadFailure ==
    /\ pc = "cleanup"
    /\ ReadFailed(2)
    /\ ~moved_inited

\* ------------------------------------------------------------------------
\* The command line on files with lines about as long as the buffer of
\* compute_block_hash.

\* With its line feed the first fills the buffer; the others are one byte
\* longer, the last by a trailing space.
Line4095 == [i \in 1..(NORMALIZED_SIZE - 1) |-> "x"]
Line4096 == [i \in 1..NORMALIZED_SIZE |-> "x"]
Line4095Space == Line4095 \o <<" ">>

LongLines == {LineA, Line4095, Line4096, Line4095Space}
LongFilePairs == {<<<<a>>, <<b>>>> : a \in LongLines, b \in LongLines}
LongCommandLines ==
    {<<>>, <<OptStr("moved", "no")>>} \cup {<<o>> : o \in MovedWsOptions}

InitLong ==
    /\ pc = "main"
    /\ \E r \in LongFilePairs \X LongCommandLines :
           /\ disk1 = r[1][1]
           /\ disk2 = r[1][2]
           /\ argv = r[2]
    /\ nfiles = 2
    /\ mf1 = NullFile
    /\ mf2 = NullFile
    /\ xpp = [flags |-> {}]
    /\ xecfg = [ctxlen |-> 0, interhunkctxlen |-> 0]
    /\ cb_plan = NoPlan
    /\ mg = NoMerge
    /\ InitCommon

SpecLong == InitLong /\ [][Next]_vars

\* collect_blocks_from_diff has run on the two files, which main still
\* holds: it returned, or the process was killed in it.
HashesComputed ==
    \/ pc \in {"setup", "collect_failed"} /\ opt.moved_mode # "MOVED_MODE_NO"
    \/ pc = "exit" /\ status \in {134, 139} /\ moved_inited

\* The longest normalized record of the blocks of the diff of the two files.
LongestNormalized ==
    CollectWritten(ChangeScript(mf1.lines, mf2.lines, xpp.flags), mf1.lines,
                   mf2.lines, moved_ctx.ws_mode, 0, 0)

\* C25: compute_block_hash never writes outside its buffer of 4096 bytes:
\* whatever the whitespace mode, normalize_whitespace writes at most 4096
\* bytes for each line record of each changed block.
C25_WritesWithinBuffer ==
    HashesComputed => LongestNormalized <= NORMALIZED_SIZE /\ ~ub

\* A line of 4096 letters was deleted and all of its bytes are kept.
C25_LongLineHashed ==
    /\ pc = "setup"
    /\ moved_ctx.ws_mode = "MOVED_WS_NO"
    /\ disk1 = <<Line4096>>
    /\ disk2 = <<LineA>>
    /\ Len(moved_ctx.deleted_blocks) = 1

\* ------------------------------------------------------------------------
\* The content of paired blocks (SpecMoved)

\* The lines of a block as compute_block_hash hashes them.
NormalizedBlock(file, b, ws_mode) ==
    [n \in 1..(b.end_line - b.start_line + 1) |->
        normalize_whitespace(Record(file[b.start_line + n - 1]), ws_mode)]

\* C26: a deleted block is matched only with an added block of as many
\* lines whose lines are, one by one, identical to its own after the
\* configured whitespace normalization.
C26_PairedBlocksSameContent ==
    Collected =>
        \A i \in MatchedDeleted, k \in MatchedAdded :
            Paired(i, k) =>
                NormalizedBlock(disk1, DeletedBlocks[i], moved_ctx.ws_mode)
                    = NormalizedBlock(disk2, AddedBlocks[k], moved_ctx.ws_mode)

\* The deleted line "ar" is matched with the added line "c0".
C26_CollidingLinesPaired ==
    /\ Collected
    /\ <<disk1, disk2>> = HashCollision
    /\ moved_ctx.ws_mode = "MOVED_WS_NO"
    /\ MatchedDeleted = {1}
    /\ MatchedAdded = {1}
    /\ Paired(1, 1)

\* ------------------------------------------------------------------------
\* The line counters of the callbacks (Spec)

\* The numbers of the next line of file 1 and of file 2 after the events
\* evs: a hunk gives the numbers of its first lines, a deleted or a context
\* line is one line of file 1, an added or a context line one of file 2.
RECURSIVE TrueCounters(_, _, _)
TrueCounters(evs, old, new) ==
    IF evs = <<>> THEN <<old, new>>
    ELSE LET e == Head(evs)
         IN  IF e.ev = "hunk"
             THEN TrueCounters(Tail(evs), e.old_begin, e.new_begin)
             ELSE TrueCounters(Tail(evs),
                               IF e.tag \in {"-", " "} THEN old + 1 ELSE old,
                               IF e.tag \in {"+", " "} THEN new + 1 ELSE new)

\* C27: after out_hunk_cb set the counters to old_begin and new_begin, each
\* call of out_line_cb advances them by exactly the one line it was given
\* (old for '-', new for '+', both for a context line), whatever the line
\* holds and in however many buffers it comes, so the counters are the true
\* numbers of the next lines of the two files.
C27_CountersFollowLines ==
    (~opt.brief /\ pc \in {"emit", "returned"}) =>
        <<ctx.current_old_line, ctx.current_new_line>> = TrueCounters(calls, 0, 0)

\* A line event was delivered in two buffers and the counters are true.
C27_LineCounted ==
    /\ ~opt.brief
    /\ pc = "emit"
    /\ calls # <<>>
    /\ calls[Len(calls)].ev = "line"
    /\ <<ctx.current_old_line, ctx.current_new_line>> = TrueCounters(calls, 0, 0)

\* ------------------------------------------------------------------------
\* The file headers of the output (SpecMoved)

\* The places of out that hold a file header, and those that hold a hunk
\* header.
FileHeaderPlaces == {i \in 1..Len(out) : out[i].k \in {"---", "+++"}}
HunkHeaderPlaces == {i \in 1..Len(out) : out[i].k = "@@"}

\* C28: when -q was not given, '--- FILE1' and '+++ FILE2' are printed
\* once in a run, right before the first hunk header and before any line
\* of the diff, and not at all while no hunk was emitted.
C28_FileHeadersOnce ==
    ~opt.brief =>
        IF HunkHeaderPlaces = {}
        THEN out = <<>>
        ELSE /\ FileHeaderPlaces = {1, 2}
             /\ out[1] = OutFileHeader("---", FILE1)
             /\ out[2] = OutFileHeader("+++", FILE2)
             /\ out[3].k = "@@"

\* A run that printed two hunks has ended.
C28_TwoHunksOneHeader ==
    /\ ~opt.brief
    /\ pc = "exit"
    /\ Cardinality(HunkHeaderPlaces) = 2
    /\ FileHeaderPlaces = {1, 2}

\* ------------------------------------------------------------------------
\* The life of the moved_block structures (Spec)

\* main has returned: the process was not killed.
MainReturned == pc = "exit" /\ status \notin {134, 139}

\* The blocks allocated and not yet freed.
LiveBlocks == heap.allocated - heap.freed

\* C29: every moved_block collect_blocks_from_diff allocated is freed once
\* before main returns and never twice: no more blocks are freed than were
\* allocated, the blocks not yet freed are those of the two lists (none
\* was lost, and none of a list was freed already), moved_context_free
\* empties both lists and a second call changes nothing, and when main has
\* returned none is left, the runs whose collection failed included.
C29_BlocksFreedOnce ==
    /\ heap.freed <= heap.allocated
    /\ moved_inited =>
           /\ LiveBlocks = BlockCount(moved_ctx)
           /\ BlockCount(moved_context_free(moved_ctx)) = 0
           /\ moved_context_free(moved_context_free(moved_ctx))
                  = moved_context_free(moved_ctx)
    /\ MainReturned => LiveBlocks = 0

\* The collection failed after it had allocated a block, moved_context_free
\* was called at the failure and again at cleanup, and main has returned 1.
C29_FailedCollectionFreed ==
    /\ MainReturned
    /\ status = 1
    /\ \E i \in 1..Len(err) : err[i] = "failed to collect blocks"
    /\ heap.allocated > 0
    /\ heap.freed = heap.allocated

\* ------------------------------------------------------------------------
\* The matching of plain mode (SpecMoved)

\* C30: in plain mode the matching leaves no pair to match: after
\* collect_blocks_from_diff returned 0 no unmatched deleted block has the
\* hash of an unmatched added block.
C30_PlainMatchingMaximal ==
    (Collected /\ moved_ctx.mode = "MOVED_MODE_PLAIN") =>
        \A i \in 1..Len(DeletedBlocks), k \in 1..Len(AddedBlocks) :
            (~DeletedBlocks[i].matched /\ ~AddedBlocks[k].matched)
                => DeletedBlocks[i].hash # AddedBlocks[k].hash

\* A line was moved twice: both deleted blocks found an added block.
C30_BothMovedLinesMatched ==
    /\ Collected
    /\ moved_ctx.mode = "MOVED_MODE_PLAIN"
    /\ <<disk1, disk2>> = MovedTwice
    /\ Len(DeletedBlocks) = 2 /\ Len(AddedBlocks) = 2
    /\ MatchedDeleted = {1, 2}
    /\ MatchedAdded = {1, 2}

====
